---- MODULE Spec2Model ----
(***************************************************************************)
(* A model of the state-graph runtime: Value, DefaultNode, the expression  *)
(* lexer / parser / evaluator, DefaultEdge, DefaultPhaseEdge, StateGraph   *)
(* and MultiPhaseStateGraph (load, setInitialPhase, step).                 *)
(*                                                                         *)
(* Conventions.  A C++ std::string that meets the expression language (a   *)
(* condition source, a var/property key, a string Value) is a sequence of  *)
(* one-character strings; node and phase ids are TLA+ strings.  Vector     *)
(* indices are 1-based and 0 stands for an empty std::optional.  A double  *)
(* is kept as an integer count of 1/Scale units; an int64_t is kept as is. *)
(***************************************************************************)
EXTENDS Integers, Sequences, FiniteSets, TLC

\* Number of fractional decimal digits the model of a double keeps.
FracDigits == 2

Scale == 10 ^ FracDigits

Min(a, b) == IF a <= b THEN a ELSE b

Range(s) == {s[x] : x \in DOMAIN s}

\* auto v = x; then K(v): the value of a call held in a local of the source.
Bind(x, K(_)) == K(x)

\* std::string::substr(pos) and substr(pos, n) on a character sequence, pos 0-based.
substr(s, pos, n) == SubSeq(s, pos + 1, Min(Len(s), pos + n))

substrFrom(s, pos) == SubSeq(s, pos + 1, Len(s))

(***************************************************************************)
(* value.hpp: Value = std::variant<int64_t, double, bool, std::string>.    *)
(***************************************************************************)
IntV(n) == [tag |-> "int", num |-> n, b |-> FALSE, str |-> <<>>]

DoubleV(n) == [tag |-> "double", num |-> n, b |-> FALSE, str |-> <<>>]

BoolV(x) == [tag |-> "bool", num |-> 0, b |-> x, str |-> <<>>]

StrV(s) == [tag |-> "string", num |-> 0, b |-> FALSE, str |-> s]

\* The empty bag (std::unordered_map with no entries).
EmptyBag == [k \in {} |-> IntV(0)]

\* One-entry and two-entry bags.
Bag1(k, v) == [x \in {k} |-> v]

Bag2(k1, v1, k2, v2) == [x \in {k1, k2} |-> IF x = k1 THEN v1 ELSE v2]

(***************************************************************************)
(* node.hpp: DefaultNode.                                                  *)
(***************************************************************************)
DefaultNode(id, params, vars, properties) ==
    [id |-> id, params |-> params, vars |-> vars, properties |-> properties]

hasVar(node, k) == k \in DOMAIN node.vars

hasProperty(node, k) == k \in DOMAIN node.properties

\* vars[k] = v: insert or overwrite one key.
setVar(node, k, v) ==
    [node EXCEPT !.vars = [x \in DOMAIN node.vars \cup {k} |->
                              IF x = k THEN v ELSE node.vars[x]]]

(***************************************************************************)
(* expression.hpp: the expression tree and its evaluation.                 *)
(* eval yields "true", "false" or the message of the exception it throws.  *)
(***************************************************************************)
\* Operator lexemes.
OpAnd == <<"&", "&">>

OpOr == <<"|", "|">>

OpEq == <<"=", "=">>

OpNe == <<"!", "=">>

OpLe == <<"<", "=">>

OpGe == <<">", "=">>

OpLt == <<"<">>

OpGt == <<">">>

OpNot == <<"!">>

CmpOps == {OpEq, OpNe, OpLt, OpLe, OpGt, OpGe}

NullExpr == [kind |-> "NULL"]

NoLeaf == [type |-> "NONE", text |-> <<>>, num |-> 0, b |-> FALSE]

LeafExpr(type, text, num, b) ==
    [kind |-> "LEAF", leaf |-> [type |-> type, text |-> text, num |-> num, b |-> b],
     cmpOp |-> <<>>, left |-> NullExpr, right |-> NullExpr]

NotExpr(child) ==
    [kind |-> "NOT", leaf |-> NoLeaf, cmpOp |-> <<>>, left |-> child, right |-> NullExpr]

BinExpr(kind, l, r) ==
    [kind |-> kind, leaf |-> NoLeaf, cmpOp |-> <<>>, left |-> l, right |-> r]

CmpExpr(op, l, r) ==
    [kind |-> "CMP", leaf |-> NoLeaf, cmpOp |-> op, left |-> l, right |-> r]

PropPrefix == <<"p", "r", "o", "p", "e", "r", "t", "i", "e", "s", ".">>

IsThrow(r) == r \notin {"true", "false"}

BoolRes(x) == IF x THEN "true" ELSE "false"

\* Truthiness taking every string, empty or not, for true.
valueTruth_nonnull(v) ==
    CASE v.tag = "bool" -> v.b
      [] v.tag = "int" -> v.num # 0
      [] v.tag = "double" -> v.num # 0
      [] v.tag = "string" -> TRUE
      [] OTHER -> FALSE

\* Truthiness of a stored Value, as in the IDENT case of eval.
valueTruth(v) ==
    CASE v.tag = "bool" -> v.b
      [] v.tag = "int" -> v.num # 0
      [] v.tag = "double" -> v.num # 0
      [] v.tag = "string" -> v.str # <<>>
      [] OTHER -> FALSE

\* The lookup handing back a false Value for a name the node does not bind.
lookupIdent_default(text, node) ==
    IF substr(text, 0, 11) = PropPrefix
    THEN LET propName == substrFrom(text, 11)
         IN IF hasProperty(node, propName)
            THEN [found |-> TRUE, val |-> node.properties[propName]]
            ELSE [found |-> TRUE, val |-> BoolV(FALSE)]
    ELSE IF hasVar(node, text)
         THEN [found |-> TRUE, val |-> node.vars[text]]
         ELSE [found |-> TRUE, val |-> BoolV(FALSE)]

\* The lookup falling back on the other bag when the name is not in its own.
lookupIdent_anybag(text, node) ==
    IF substr(text, 0, 11) = PropPrefix
    THEN LET propName == substrFrom(text, 11)
         IN IF hasProperty(node, propName)
            THEN [found |-> TRUE, val |-> node.properties[propName]]
            ELSE IF hasVar(node, propName)
            THEN [found |-> TRUE, val |-> node.vars[propName]]
            ELSE [found |-> FALSE, val |-> IntV(0)]
    ELSE IF hasVar(node, text)
         THEN [found |-> TRUE, val |-> node.vars[text]]
         ELSE IF hasProperty(node, text)
         THEN [found |-> TRUE, val |-> node.properties[text]]
         ELSE [found |-> FALSE, val |-> IntV(0)]

\* The Value an identifier names in a node, or absent.
lookupIdent(text, node) ==
    IF substr(text, 0, 11) = PropPrefix
    THEN LET propName == substrFrom(text, 11)
         IN IF hasProperty(node, propName)
            THEN [found |-> TRUE, val |-> node.properties[propName]]
            ELSE [found |-> FALSE, val |-> IntV(0)]
    ELSE IF hasVar(node, text)
         THEN [found |-> TRUE, val |-> node.vars[text]]
         ELSE [found |-> FALSE, val |-> IntV(0)]

\* toNumberPromote taking a bool for the number 0 or 1.
toNumberPromote_bool(v) ==
    CASE v.tag = "int" -> [ok |-> TRUE, num |-> v.num * Scale]
      [] v.tag = "double" -> [ok |-> TRUE, num |-> v.num]
      [] v.tag = "bool" -> [ok |-> TRUE, num |-> IF v.b THEN Scale ELSE 0]
      [] OTHER -> [ok |-> FALSE, num |-> 0]

\* toNumberPromote: the number in 1/Scale units, or a throw.
toNumberPromote(v) ==
    CASE v.tag = "int" -> [ok |-> TRUE, num |-> v.num * Scale]
      [] v.tag = "double" -> [ok |-> TRUE, num |-> v.num]
      [] OTHER -> [ok |-> FALSE, num |-> 0]

\* Equality without the numeric cross-compare.
valueEquals_strict(a, b) == a = b

valueEquals(a, b) ==
    IF a.tag # b.tag
    THEN IF a.tag \in {"int", "double"} /\ b.tag \in {"int", "double"}
         THEN toNumberPromote(a).num = toNumberPromote(b).num
         ELSE FALSE
    ELSE a = b

\* extractLeaf: the Value of a leaf, or the message of the exception.
extractLeaf(n, node) ==
    CASE n.leaf.type = "BOOLEAN" -> [ok |-> TRUE, val |-> BoolV(n.leaf.b), what |-> ""]
      [] n.leaf.type = "NUMBER" -> [ok |-> TRUE, val |-> DoubleV(n.leaf.num), what |-> ""]
      [] n.leaf.type = "STRING" -> [ok |-> TRUE, val |-> StrV(n.leaf.text), what |-> ""]
      [] n.leaf.type = "IDENT" ->
            Bind(lookupIdent(n.leaf.text, node), LAMBDA v :
                IF v.found
                THEN [ok |-> TRUE, val |-> v.val, what |-> ""]
                ELSE IF substr(n.leaf.text, 0, 11) = PropPrefix
                     THEN [ok |-> FALSE, val |-> IntV(0), what |-> "Unknown property"]
                     ELSE [ok |-> FALSE, val |-> IntV(0), what |-> "Unknown var"])
      [] OTHER -> [ok |-> FALSE, val |-> IntV(0), what |-> "Invalid leaf"]

\* The comparison of two extracted Values.
compareValues(op, lv, rv) ==
    IF op \in {OpEq, OpNe}
    THEN BoolRes((op = OpEq) = valueEquals(lv, rv))
    ELSE Bind(toNumberPromote(lv), LAMBDA ln : Bind(toNumberPromote(rv), LAMBDA rn :
             IF ~ln.ok \/ ~rn.ok THEN "Non-numeric in numeric comparison"
             ELSE CASE op = OpLt -> BoolRes(ln.num < rn.num)
                    [] op = OpLe -> BoolRes(ln.num <= rn.num)
                    [] op = OpGt -> BoolRes(ln.num > rn.num)
                    [] op = OpGe -> BoolRes(ln.num >= rn.num)
                    [] OTHER -> "Unknown comparison op"))

RECURSIVE eval(_, _)
RECURSIVE extractValue(_, _)

extractValue(n, node) ==
    IF n.kind = "LEAF" THEN extractLeaf(n, node)
    ELSE Bind(eval(n, node), LAMBDA r :
             IF IsThrow(r) THEN [ok |-> FALSE, val |-> IntV(0), what |-> r]
             ELSE [ok |-> TRUE, val |-> BoolV(r = "true"), what |-> ""])

\* eval evaluating both operands of && and || before combining them.
eval_eager(n, node) ==
    CASE n.kind \in {"AND", "OR"} ->
            Bind(eval(n.left, node), LAMBDA l : Bind(eval(n.right, node), LAMBDA r :
                IF IsThrow(l) THEN l
                ELSE IF IsThrow(r) THEN r
                ELSE IF n.kind = "AND" THEN BoolRes(l = "true" /\ r = "true")
                ELSE BoolRes(l = "true" \/ r = "true")))
      [] n.kind = "LEAF" ->
            (CASE n.leaf.type = "BOOLEAN" -> BoolRes(n.leaf.b)
               [] n.leaf.type = "NUMBER" -> BoolRes(n.leaf.num # 0)
               [] n.leaf.type = "STRING" -> BoolRes(n.leaf.text # <<>>)
               [] OTHER ->
                    Bind(lookupIdent(n.leaf.text, node), LAMBDA v :
                        IF ~v.found THEN "false" ELSE BoolRes(valueTruth(v.val))))
      [] n.kind = "NOT" ->
            Bind(eval(n.left, node), LAMBDA l :
                IF IsThrow(l) THEN l ELSE BoolRes(l = "false"))
      [] n.kind = "CMP" ->
            Bind(extractValue(n.left, node), LAMBDA lv :
                IF ~lv.ok THEN lv.what
                ELSE Bind(extractValue(n.right, node), LAMBDA rv :
                         IF ~rv.ok THEN rv.what
                         ELSE compareValues(n.cmpOp, lv.val, rv.val)))
      [] OTHER -> "false"

eval(n, node) ==
    CASE n.kind = "LEAF" ->
            (CASE n.leaf.type = "BOOLEAN" -> BoolRes(n.leaf.b)
               [] n.leaf.type = "NUMBER" -> BoolRes(n.leaf.num # 0)
               [] n.leaf.type = "STRING" -> BoolRes(n.leaf.text # <<>>)
               [] OTHER ->
                    Bind(lookupIdent(n.leaf.text, node), LAMBDA v :
                        IF ~v.found THEN "false" ELSE BoolRes(valueTruth(v.val))))
      [] n.kind = "NOT" ->
            Bind(eval(n.left, node), LAMBDA l :
                IF IsThrow(l) THEN l ELSE BoolRes(l = "false"))
      [] n.kind = "AND" ->
            Bind(eval(n.left, node), LAMBDA l :
                IF l # "true" THEN l ELSE eval(n.right, node))
      [] n.kind = "OR" ->
            Bind(eval(n.left, node), LAMBDA l :
                IF l # "false" THEN l ELSE eval(n.right, node))
      [] n.kind = "CMP" ->
            Bind(extractValue(n.left, node), LAMBDA lv :
                IF ~lv.ok THEN lv.what
                ELSE Bind(extractValue(n.right, node), LAMBDA rv :
                         IF ~rv.ok THEN rv.what
                         ELSE compareValues(n.cmpOp, lv.val, rv.val)))
      [] OTHER -> "false"

(***************************************************************************)
(* expression.hpp: Lexer.  Positions are 0-based as in the source; s[i] of *)
(* the source is s[i + 1] here.                                            *)
(***************************************************************************)
Letters == {"a", "b", "c", "d", "e", "f", "g", "h", "i", "j", "k", "l", "m",
            "n", "o", "p", "q", "r", "s", "t", "u", "v", "w", "x", "y", "z",
            "A", "B", "C", "D", "E", "F", "G", "H", "I", "J", "K", "L", "M",
            "N", "O", "P", "Q", "R", "S", "T", "U", "V", "W", "X", "Y", "Z"}

Digits == {"0", "1", "2", "3", "4", "5", "6", "7", "8", "9"}

\* std::isspace in the C locale (\f and \v have no TLA+ string escape).
Spaces == {" ", "\t", "\n", "\r"}

DigitVal(c) ==
    CASE c = "0" -> 0 [] c = "1" -> 1 [] c = "2" -> 2 [] c = "3" -> 3
      [] c = "4" -> 4 [] c = "5" -> 5 [] c = "6" -> 6 [] c = "7" -> 7
      [] c = "8" -> 8 [] c = "9" -> 9

\* while (i < s.size() && s[i] in cls) ++i;
RECURSIVE scanWhile(_, _, _)
scanWhile(s, i, cls) ==
    IF i < Len(s) /\ s[i + 1] \in cls THEN scanWhile(s, i + 1, cls) ELSE i

Tok(kind, text, i) == [tok |-> [kind |-> kind, text |-> text], i |-> i, what |-> ""]

LexThrow(msg) == [tok |-> [kind |-> "END", text |-> <<>>], i |-> 0, what |-> msg]

match2(s, i, a, b) == i + 1 < Len(s) /\ s[i + 1] = a /\ s[i + 2] = b

\* Lexer::next from position i0: the token and the position after it.
next(s, i0) ==
    LET i == scanWhile(s, i0, Spaces)
    IN IF i >= Len(s) THEN Tok("END", <<>>, i)
       ELSE LET c == s[i + 1]
            IN CASE c \in Letters \cup {"_"} ->
                      LET j == scanWhile(s, i + 1, Letters \cup Digits \cup {"_", "."})
                          id == substr(s, i, j - i)
                      IN IF id = <<"t", "r", "u", "e">> \/ id = <<"f", "a", "l", "s", "e">>
                         THEN Tok("BOOL", id, j)
                         ELSE Tok("ID", id, j)
                 [] c \in Digits ->
                      LET j == scanWhile(s, i + 1, Digits \cup {"."})
                      IN Tok("NUM", substr(s, i, j - i), j)
                 [] c = "\"" ->
                      LET start == i + 1
                          j == scanWhile(s, start, {x \in Range(s) : x # "\""})
                      IN IF j >= Len(s) THEN LexThrow("Unterminated string literal")
                         ELSE Tok("STR", substr(s, start, j - start), j + 1)
                 [] match2(s, i, "&", "&") -> Tok("OP", OpAnd, i + 2)
                 [] match2(s, i, "|", "|") -> Tok("OP", OpOr, i + 2)
                 [] match2(s, i, "=", "=") -> Tok("OP", OpEq, i + 2)
                 [] match2(s, i, "!", "=") -> Tok("OP", OpNe, i + 2)
                 [] match2(s, i, "<", "=") -> Tok("OP", OpLe, i + 2)
                 [] match2(s, i, ">", "=") -> Tok("OP", OpGe, i + 2)
                 [] c \in {"<", ">", "!"} -> Tok("OP", <<c>>, i + 1)
                 [] c = "(" -> Tok("LP", <<"(">>, i + 1)
                 [] c = ")" -> Tok("RP", <<")">>, i + 1)
                 [] OTHER -> LexThrow("Unexpected char")

\* The value of a run of decimal digits.
RECURSIVE digitsVal(_)
digitsVal(ds) ==
    IF ds = <<>> THEN 0
    ELSE 10 * digitsVal(SubSeq(ds, 1, Len(ds) - 1)) + DigitVal(ds[Len(ds)])

\* std::stod on a NUM lexeme (digits and dots, starting with a digit): the
\* longest prefix "digits [. digits]" is converted, in 1/Scale units.
stod(text) ==
    LET ip == scanWhile(text, 0, Digits)
        fe == IF ip < Len(text) /\ text[ip + 1] = "."
              THEN scanWhile(text, ip + 1, Digits) ELSE ip
        frac == IF fe > ip THEN substr(text, ip + 1, Min(fe - ip - 1, FracDigits)) ELSE <<>>
    IN digitsVal(substr(text, 0, ip)) * Scale
       + digitsVal(frac) * (10 ^ (FracDigits - Len(frac)))

(***************************************************************************)
(* expression.hpp: Parser.  A parse state is the node built so far, the    *)
(* look-ahead token cur, the lexer position i and the message of the       *)
(* exception thrown, "" when none.                                         *)
(***************************************************************************)
PState(n, cur, i) == [n |-> n, cur |-> cur, i |-> i, what |-> ""]

PThrow(msg) == [n |-> NullExpr, cur |-> [kind |-> "END", text |-> <<>>], i |-> 0, what |-> msg]

\* cur = lex.next() after a node n has been built.
advance(s, n, i) ==
    Bind(next(s, i), LAMBDA t :
        IF t.what # "" THEN PThrow(t.what) ELSE PState(n, t.tok, t.i))

isOp(cur, op) == cur.kind = "OP" /\ cur.text = op

RECURSIVE parseOr(_, _, _)
RECURSIVE orLoop(_, _)
RECURSIVE parseAnd(_, _, _)
RECURSIVE andLoop(_, _)
RECURSIVE parseNot(_, _, _)
RECURSIVE parseCmp(_, _, _)
RECURSIVE parsePrimary(_, _, _)
RECURSIVE andLoop_equal(_, _)

parsePrimary(s, cur, i) ==
    CASE cur.kind = "LP" ->
            Bind(advance(s, NullExpr, i), LAMBDA a :
                IF a.what # "" THEN a
                ELSE Bind(parseOr(s, a.cur, a.i), LAMBDA e :
                         IF e.what # "" THEN e
                         ELSE IF e.cur.kind # "RP" THEN PThrow("Expected ')'")
                         ELSE advance(s, e.n, e.i)))
      [] cur.kind = "BOOL" ->
            advance(s, LeafExpr("BOOLEAN", <<>>, 0, cur.text = <<"t", "r", "u", "e">>), i)
      [] cur.kind = "NUM" -> advance(s, LeafExpr("NUMBER", <<>>, stod(cur.text), FALSE), i)
      [] cur.kind = "STR" -> advance(s, LeafExpr("STRING", cur.text, 0, FALSE), i)
      [] cur.kind = "ID" -> advance(s, LeafExpr("IDENT", cur.text, 0, FALSE), i)
      [] OTHER -> PThrow("Unexpected token in primary")

parseCmp(s, cur, i) ==
    Bind(parsePrimary(s, cur, i), LAMBDA l :
        IF l.what # "" THEN l
        ELSE IF l.cur.kind = "OP" /\ l.cur.text \in CmpOps
        THEN Bind(advance(s, NullExpr, l.i), LAMBDA a :
                 IF a.what # "" THEN a
                 ELSE Bind(parsePrimary(s, a.cur, a.i), LAMBDA r :
                          IF r.what # "" THEN r
                          ELSE PState(CmpExpr(l.cur.text, l.n, r.n), r.cur, r.i)))
        ELSE l)

parseNot(s, cur, i) ==
    IF isOp(cur, OpNot)
    THEN Bind(advance(s, NullExpr, i), LAMBDA a :
             IF a.what # "" THEN a
             ELSE Bind(parseNot(s, a.cur, a.i), LAMBDA c :
                      IF c.what # "" THEN c ELSE PState(NotExpr(c.n), c.cur, c.i)))
    ELSE parseCmp(s, cur, i)

\* The loop of parseAnd taking "||" at the level of "&&": one left-associative
\* chain of both operators.
andLoop_equal(s, l) ==
    IF l.what = "" /\ (isOp(l.cur, OpAnd) \/ isOp(l.cur, OpOr))
    THEN Bind(advance(s, NullExpr, l.i), LAMBDA a :
             IF a.what # "" THEN a
             ELSE Bind(parseNot(s, a.cur, a.i), LAMBDA r :
                      IF r.what # "" THEN r
                      ELSE andLoop_equal(s, PState(BinExpr(IF isOp(l.cur, OpAnd) THEN "AND" ELSE "OR",
                                                           l.n, r.n), r.cur, r.i))))
    ELSE l

\* while (isOp("&&")) { cur = lex.next(); right = parseNot(); left = AND(left, right); }
andLoop(s, l) ==
    IF l.what = "" /\ isOp(l.cur, OpAnd)
    THEN Bind(advance(s, NullExpr, l.i), LAMBDA a :
             IF a.what # "" THEN a
             ELSE Bind(parseNot(s, a.cur, a.i), LAMBDA r :
                      IF r.what # "" THEN r
                      ELSE andLoop(s, PState(BinExpr("AND", l.n, r.n), r.cur, r.i))))
    ELSE l

parseAnd(s, cur, i) == andLoop(s, parseNot(s, cur, i))

orLoop(s, l) ==
    IF l.what = "" /\ isOp(l.cur, OpOr)
    THEN Bind(advance(s, NullExpr, l.i), LAMBDA a :
             IF a.what # "" THEN a
             ELSE Bind(parseAnd(s, a.cur, a.i), LAMBDA r :
                      IF r.what # "" THEN r
                      ELSE orLoop(s, PState(BinExpr("OR", l.n, r.n), r.cur, r.i))))
    ELSE l

parseOr(s, cur, i) == orLoop(s, parseAnd(s, cur, i))

\* compileExpression: Parser p(expr) lexes the first token, p.parse() is parseOr.
\* Yields the tree, or the message of the exception thrown.
compileExpression(expr) ==
    Bind(next(expr, 0), LAMBDA first :
        IF first.what # "" THEN [ok |-> FALSE, tree |-> NullExpr, what |-> first.what]
        ELSE Bind(parseOr(expr, first.tok, first.i), LAMBDA p :
                 IF p.what # "" THEN [ok |-> FALSE, tree |-> NullExpr, what |-> p.what]
                 ELSE [ok |-> TRUE, tree |-> p.n, what |-> ""]))

(***************************************************************************)
(* JSON documents.  An object is a function from its keys; contains(k) is  *)
(* k \in DOMAIN j and at(k) throws when the key is missing.  Scalars are   *)
(* held as the Value parseValue makes of them.                             *)
(***************************************************************************)
contains(j, k) == k \in DOMAIN j

\* DefaultNode::from_json
Node_from_json(j) ==
    IF ~contains(j, "id") THEN [ok |-> FALSE, node |-> DefaultNode("", EmptyBag, EmptyBag, EmptyBag),
                                what |-> "key 'id' not found"]
    ELSE [ok |-> TRUE,
          node |-> DefaultNode(j.id,
                               IF contains(j, "params") THEN j.params ELSE EmptyBag,
                               IF contains(j, "vars") THEN j.vars ELSE EmptyBag,
                               IF contains(j, "properties") THEN j.properties ELSE EmptyBag),
          what |-> ""]

NoEdge == [from |-> "", to |-> "", condition_expr |-> <<>>, compiled |-> NullExpr,
           actions |-> EmptyBag]

\* DefaultEdge::from_json
Edge_from_json(j) ==
    CASE ~contains(j, "from") -> [ok |-> FALSE, edge |-> NoEdge, what |-> "key 'from' not found"]
      [] ~contains(j, "to") -> [ok |-> FALSE, edge |-> NoEdge, what |-> "key 'to' not found"]
      [] ~contains(j, "condition") ->
            [ok |-> FALSE, edge |-> NoEdge, what |-> "key 'condition' not found"]
      [] OTHER ->
            Bind(compileExpression(j.condition), LAMBDA c :
                IF ~c.ok THEN [ok |-> FALSE, edge |-> NoEdge, what |-> c.what]
                ELSE [ok |-> TRUE,
                      edge |-> [from |-> j.from, to |-> j.to, condition_expr |-> j.condition,
                                compiled |-> c.tree,
                                actions |-> IF contains(j, "actions") THEN j.actions
                                            ELSE EmptyBag],
                      what |-> ""])

\* A node edge taking the default of a phase edge when nothing is compiled.
Edge_evaluate_false(e, current) ==
    IF e.compiled # NullExpr THEN eval(e.compiled, current) ELSE "false"

\* DefaultEdge::evaluate: compiled ? compiled->eval(current) : true
Edge_evaluate(e, current) ==
    IF e.compiled # NullExpr THEN eval(e.compiled, current) ELSE "true"

NoPhaseEdge == [from |-> "", to |-> "", condition_expr |-> <<>>, compiled |-> NullExpr]

\* DefaultPhaseEdge::from_json
PhaseEdge_from_json(j) ==
    CASE ~contains(j, "from") ->
            [ok |-> FALSE, edge |-> NoPhaseEdge, what |-> "key 'from' not found"]
      [] ~contains(j, "to") -> [ok |-> FALSE, edge |-> NoPhaseEdge, what |-> "key 'to' not found"]
      [] ~contains(j, "condition") ->
            [ok |-> FALSE, edge |-> NoPhaseEdge, what |-> "key 'condition' not found"]
      [] OTHER ->
            Bind(compileExpression(j.condition), LAMBDA c :
                IF ~c.ok THEN [ok |-> FALSE, edge |-> NoPhaseEdge, what |-> c.what]
                ELSE [ok |-> TRUE,
                      edge |-> [from |-> j.from, to |-> j.to, condition_expr |-> j.condition,
                                compiled |-> c.tree],
                      what |-> ""])

\* DefaultPhaseEdge::evaluate: compiled ? compiled->eval(currentNode) : false
PhaseEdge_evaluate(e, currentNode) ==
    IF e.compiled # NullExpr THEN eval(e.compiled, currentNode) ELSE "false"

(***************************************************************************)
(* state_graph.hpp: StateGraph.                                            *)
(***************************************************************************)
EmptyIndex == [k \in {} |-> 0]

\* A default-constructed (or cleared) StateGraph.
EmptyGraph == [nodes_ |-> <<>>, edges_ |-> <<>>, node_index_ |-> EmptyIndex,
               adjacency_ |-> <<>>, current_index_ |-> 0]

\* index[id] = n
IndexPut(index, id, n) == [k \in DOMAIN index \cup {id} |-> IF k = id THEN n ELSE index[k]]

\* addNode without the duplicate test.
addNode_unchecked(g, n) ==
    [g |-> [g EXCEPT !.node_index_ = IndexPut(g.node_index_, n.id, Len(g.nodes_) + 1),
                     !.nodes_ = Append(g.nodes_, n),
                     !.adjacency_ = Append(g.adjacency_, <<>>)],
     what |-> ""]

addNode(g, n) ==
    IF n.id \in DOMAIN g.node_index_ THEN [g |-> g, what |-> "Duplicate node id"]
    ELSE [g |-> [g EXCEPT !.node_index_ = IndexPut(g.node_index_, n.id, Len(g.nodes_) + 1),
                          !.nodes_ = Append(g.nodes_, n),
                          !.adjacency_ = Append(g.adjacency_, <<>>)],
          what |-> ""]

\* addEdge keeping an edge whose from equals its to out of the adjacency.
addEdge_noloop(g, e) ==
    IF e.from \notin DOMAIN g.node_index_ \/ e.to \notin DOMAIN g.node_index_
    THEN [g |-> g, what |-> "Edge references unknown node"]
    ELSE LET idx == Len(g.edges_) + 1
             fi == g.node_index_[e.from]
         IN [g |-> [g EXCEPT !.edges_ = Append(g.edges_, e),
                             !.adjacency_[fi] = IF e.from = e.to THEN g.adjacency_[fi]
                                                ELSE Append(g.adjacency_[fi], idx)],
             what |-> ""]

\* addEdge looking up the source of the edge only.
addEdge_fromonly(g, e) ==
    IF e.from \notin DOMAIN g.node_index_
    THEN [g |-> g, what |-> "Edge references unknown node"]
    ELSE LET idx == Len(g.edges_) + 1
             fi == g.node_index_[e.from]
         IN [g |-> [g EXCEPT !.edges_ = Append(g.edges_, e),
                             !.adjacency_[fi] = Append(g.adjacency_[fi], idx)],
             what |-> ""]

\* StateGraph::addEdge
addEdge(g, e) ==
    IF e.from \notin DOMAIN g.node_index_ \/ e.to \notin DOMAIN g.node_index_
    THEN [g |-> g, what |-> "Edge references unknown node"]
    ELSE LET idx == Len(g.edges_) + 1
             fi == g.node_index_[e.from]
         IN [g |-> [g EXCEPT !.edges_ = Append(g.edges_, e),
                             !.adjacency_[fi] = Append(g.adjacency_[fi], idx)],
             what |-> ""]

\* setInitialState unsetting the current node when the id is unknown.
setInitialState_reset(g, id) ==
    IF id \notin DOMAIN g.node_index_
    THEN [g |-> [g EXCEPT !.current_index_ = 0], ret |-> FALSE]
    ELSE [g |-> [g EXCEPT !.current_index_ = g.node_index_[id]], ret |-> TRUE]

\* StateGraph::setInitialState
setInitialState(g, id) ==
    IF id \notin DOMAIN g.node_index_ THEN [g |-> g, ret |-> FALSE]
    ELSE [g |-> [g EXCEPT !.current_index_ = g.node_index_[id]], ret |-> TRUE]

hasCurrentState(g) == g.current_index_ # 0

\* StateGraph::currentStateId handing back an empty id when no node is current.
StateGraph_currentStateId_blank(g) ==
    IF g.current_index_ = 0 THEN [what |-> "", id |-> ""]
    ELSE [what |-> "", id |-> g.nodes_[g.current_index_].id]

\* StateGraph::currentStateId: the id, or the message of the exception.
StateGraph_currentStateId(g) ==
    IF g.current_index_ = 0 THEN [what |-> "No current state", id |-> ""]
    ELSE [what |-> "", id |-> g.nodes_[g.current_index_].id]

\* StateGraph::currentNode: the node referred to (by its index), or the
\* message of the exception.
StateGraph_currentNode(g) ==
    IF g.current_index_ = 0 THEN [what |-> "No current state", index |-> 0]
    ELSE [what |-> "", index |-> g.current_index_]

\* The loop stopping after the first entry of the action map.
applyActions_first(dest, actions, keys) ==
    IF keys = {} THEN dest
    ELSE LET k == CHOOSE x \in keys : TRUE
         IN setVar(dest, k, actions[k])

\* for (auto& [k, v] : e.actions) dest.setVar(k, v);
RECURSIVE applyActions(_, _, _)
applyActions(dest, actions, keys) ==
    IF keys = {} THEN dest
    ELSE LET k == CHOOSE x \in keys : TRUE
         IN applyActions(setVar(dest, k, actions[k]), actions, keys \ {k})

\* StateGraph::step leaving an entry x = 0 in the vars of the node its
\* conditions were evaluated against when none of them was true.
StepOut_touched(g, has, what, fired, evald) ==
    [g |-> IF fired = 0 /\ evald # <<>>
           THEN [g EXCEPT !.nodes_[g.current_index_] = setVar(@, <<"x">>, IntV(0))]
           ELSE g,
     has |-> has, what |-> what, fired |-> fired, evald |-> evald]

\* StateGraph::step handing back "no transition" whatever it did.
StepOut_silent(g, has, what, fired, evald) ==
    [g |-> g, has |-> FALSE, what |-> what, fired |-> fired, evald |-> evald]

\* The outcome of StateGraph::step: the graph afterwards, whether an id is
\* returned, the exception message ("" when none), the index of the edge that
\* fired (0 when none) and the indices of the edges evaluated, in order.
StepOut(g, has, what, fired, evald) ==
    [g |-> g, has |-> has, what |-> what, fired |-> fired, evald |-> evald]

\* stepLoop visiting the adjacency in reverse declaration order.
RECURSIVE stepLoop_reversed(_, _, _)
stepLoop_reversed(g, k, evald) ==
    LET fromIdx == g.current_index_
        cur == g.nodes_[fromIdx]
        adj == g.adjacency_[fromIdx]
    IN IF k > Len(adj) THEN StepOut(g, FALSE, "", 0, evald)
       ELSE LET edgeIdx == adj[Len(adj) + 1 - k]
                e == g.edges_[edgeIdx]
                seen == Append(evald, edgeIdx)
                to == g.node_index_[e.to]
            IN Bind(Edge_evaluate(e, cur), LAMBDA r :
                   CASE IsThrow(r) -> StepOut(g, FALSE, r, 0, seen)
                     [] r = "true" ->
                          StepOut([g EXCEPT !.current_index_ = to,
                                            !.nodes_[to] =
                                                applyActions(g.nodes_[to], e.actions,
                                                             DOMAIN e.actions)],
                                  TRUE, "", edgeIdx, seen)
                     [] OTHER -> stepLoop_reversed(g, k + 1, seen))

\* stepLoop writing the actions into the source node instead of the destination.
RECURSIVE stepLoop_source(_, _, _)
stepLoop_source(g, k, evald) ==
    LET fromIdx == g.current_index_
        cur == g.nodes_[fromIdx]
        adj == g.adjacency_[fromIdx]
    IN IF k > Len(adj) THEN StepOut(g, FALSE, "", 0, evald)
       ELSE LET edgeIdx == adj[k]
                e == g.edges_[edgeIdx]
                seen == Append(evald, edgeIdx)
                to == g.node_index_[e.to]
            IN Bind(Edge_evaluate(e, cur), LAMBDA r :
                   CASE IsThrow(r) -> StepOut(g, FALSE, r, 0, seen)
                     [] r = "true" ->
                          StepOut([g EXCEPT !.current_index_ = to,
                                            !.nodes_[fromIdx] =
                                                applyActions(cur, e.actions,
                                                             DOMAIN e.actions)],
                                  TRUE, "", edgeIdx, seen)
                     [] OTHER -> stepLoop_source(g, k + 1, seen))

\* The loop of StateGraph::step from position k of the current node's adjacency.
RECURSIVE stepLoop(_, _, _)
stepLoop(g, k, evald) ==
    LET fromIdx == g.current_index_
        cur == g.nodes_[fromIdx]
        adj == g.adjacency_[fromIdx]
    IN IF k > Len(adj) THEN StepOut(g, FALSE, "", 0, evald)
       ELSE LET edgeIdx == adj[k]
                e == g.edges_[edgeIdx]
                seen == Append(evald, edgeIdx)
                to == g.node_index_[e.to]
            IN Bind(Edge_evaluate(e, cur), LAMBDA r :
                   CASE IsThrow(r) -> StepOut(g, FALSE, r, 0, seen)
                     [] r = "true" ->
                          StepOut([g EXCEPT !.current_index_ = to,
                                            !.nodes_[to] =
                                                applyActions(g.nodes_[to], e.actions,
                                                             DOMAIN e.actions)],
                                  TRUE, "", edgeIdx, seen)
                     [] OTHER -> stepLoop(g, k + 1, seen))

\* step going back to the first node when no edge fires.
StateGraph_step_restart(g) ==
    IF g.current_index_ = 0 THEN StepOut(g, FALSE, "", 0, <<>>)
    ELSE Bind(stepLoop(g, 1, <<>>), LAMBDA o :
             IF o.fired = 0 /\ o.what = "" THEN [o EXCEPT !.g.current_index_ = 1] ELSE o)

\* step making the first node current when no node is.
StateGraph_step_autostart(g) ==
    IF g.current_index_ = 0
    THEN IF g.nodes_ = <<>> THEN StepOut(g, FALSE, "", 0, <<>>)
         ELSE StepOut([g EXCEPT !.current_index_ = 1], TRUE, "", 0, <<>>)
    ELSE stepLoop(g, 1, <<>>)

\* StateGraph::step
StateGraph_step(g) ==
    IF g.current_index_ = 0 THEN StepOut(g, FALSE, "", 0, <<>>)
    ELSE stepLoop(g, 1, <<>>)

(***************************************************************************)
(* The configuration documents: keys, string values and condition sources  *)
(* as character sequences, then the documents themselves.                  *)
(***************************************************************************)
K_count == <<"c", "o", "u", "n", "t">>

K_enabled == <<"e", "n", "a", "b", "l", "e", "d">>

K_attempts == <<"a", "t", "t", "e", "m", "p", "t", "s">>

K_score == <<"s", "c", "o", "r", "e">>

K_desc == <<"d", "e", "s", "c">>

K_x == <<"x">>

K_y == <<"y">>

K_z == <<"z">>

\* System idle
S_System_idle == <<"S", "y", "s", "t", "e", "m", " ", "i", "d", "l", "e">>

\* Processing
S_Processing == <<"P", "r", "o", "c", "e", "s", "s", "i", "n", "g">>

\* Fault
S_Fault == <<"F", "a", "u", "l", "t">>

\* Recovery idle
S_Recovery_idle == <<"R", "e", "c", "o", "v", "e", "r", "y", " ", "i", "d", "l", "e">>

\* Repairing
S_Repairing == <<"R", "e", "p", "a", "i", "r", "i", "n", "g">>

\* s
S_s == <<"s">>

\* true
C_true == <<"t", "r", "u", "e">>

\* false
C_false == <<"f", "a", "l", "s", "e">>

\* enabled && count >= 0
C_enabled_and_count_ge_0 ==
    <<"e", "n", "a", "b", "l", "e", "d", " ", "&", "&", " ", "c", "o", "u", "n", "t", " ", ">",
      "=", " ", "0">>

\* count < 2 && enabled
C_count_lt_2_and_enabled ==
    <<"c", "o", "u", "n", "t", " ", "<", " ", "2", " ", "&", "&", " ", "e", "n", "a", "b", "l",
      "e", "d">>

\* !enabled || count >= 2
C_not_enabled_or_count_ge_2 ==
    <<"!", "e", "n", "a", "b", "l", "e", "d", " ", "|", "|", " ", "c", "o", "u", "n", "t", " ",
      ">", "=", " ", "2">>

\* count >= 5
C_count_ge_5 == <<"c", "o", "u", "n", "t", " ", ">", "=", " ", "5">>

\* attempts < 1 && enabled
C_attempts_lt_1_and_enabled ==
    <<"a", "t", "t", "e", "m", "p", "t", "s", " ", "<", " ", "1", " ", "&", "&", " ", "e", "n",
      "a", "b", "l", "e", "d">>

\* attempts >= 1
C_attempts_ge_1 == <<"a", "t", "t", "e", "m", "p", "t", "s", " ", ">", "=", " ", "1">>

\* count >= 2
C_count_ge_2 == <<"c", "o", "u", "n", "t", " ", ">", "=", " ", "2">>

\* attempts >= 2
C_attempts_ge_2 == <<"a", "t", "t", "e", "m", "p", "t", "s", " ", ">", "=", " ", "2">>

\* count < 2
C_count_lt_2 == <<"c", "o", "u", "n", "t", " ", "<", " ", "2">>

\* score >= 50
C_score_ge_50 == <<"s", "c", "o", "r", "e", " ", ">", "=", " ", "5", "0">>

\* x > 5
C_x_gt_5 == <<"x", " ", ">", " ", "5">>

\* x >= 1
C_x_ge_1 == <<"x", " ", ">", "=", " ", "1">>

\* !x
C_not_x == <<"!", "x">>

\* y == 1
C_y_eq_1 == <<"y", " ", "=", "=", " ", "1">>

\* x >= 7
C_x_ge_7 == <<"x", " ", ">", "=", " ", "7">>

\* x > 6
C_x_gt_6 == <<"x", " ", ">", " ", "6">>

\* x > -1
C_x_gt_minus_1 == <<"x", " ", ">", " ", "-", "1">>

\* config/sample_graph.json, as the editor's loadSampleData holds it.
SampleGraph ==
    [phases |-> <<
        [id |-> "Main", initial_state |-> "Idle",
         nodes |-> <<
            [id |-> "Idle", params |-> Bag1(K_desc, StrV(S_System_idle)),
             vars |-> Bag2(K_count, IntV(0), K_enabled, BoolV(TRUE))],
            [id |-> "Active", params |-> Bag1(K_desc, StrV(S_Processing)),
             vars |-> Bag2(K_count, IntV(0), K_enabled, BoolV(TRUE))],
            [id |-> "Error", params |-> Bag1(K_desc, StrV(S_Fault)),
             vars |-> Bag2(K_count, IntV(0), K_enabled, BoolV(TRUE))] >>,
         edges |-> <<
            [from |-> "Idle", to |-> "Active", condition |-> C_enabled_and_count_ge_0,
             actions |-> Bag1(K_count, IntV(1))],
            [from |-> "Active", to |-> "Active", condition |-> C_count_lt_2_and_enabled,
             actions |-> Bag1(K_count, IntV(2))],
            [from |-> "Active", to |-> "Error", condition |-> C_not_enabled_or_count_ge_2],
            [from |-> "Error", to |-> "Idle", condition |-> C_count_ge_5,
             actions |-> Bag2(K_count, IntV(0), K_enabled, BoolV(TRUE))] >>],
        [id |-> "Recovery", initial_state |-> "RIdle",
         nodes |-> <<
            [id |-> "RIdle", params |-> Bag1(K_desc, StrV(S_Recovery_idle)),
             vars |-> Bag2(K_attempts, IntV(0), K_enabled, BoolV(TRUE))],
            [id |-> "Repair", params |-> Bag1(K_desc, StrV(S_Repairing)),
             vars |-> Bag2(K_attempts, IntV(0), K_enabled, BoolV(TRUE))] >>,
         edges |-> <<
            [from |-> "RIdle", to |-> "Repair", condition |-> C_attempts_lt_1_and_enabled,
             actions |-> Bag1(K_attempts, IntV(1))],
            [from |-> "Repair", to |-> "RIdle", condition |-> C_attempts_ge_1,
             actions |-> Bag1(K_attempts, IntV(2))] >>] >>,
     phase_edges |-> <<
        [from |-> "Main", to |-> "Recovery", condition |-> C_count_ge_2],
        [from |-> "Recovery", to |-> "Main", condition |-> C_attempts_ge_2] >>]

\* The document of MultiPhaseStateGraphTest.PhaseTransitions.
PhaseTransitionsDoc ==
    [phases |-> <<
        [id |-> "phase1", initial_state |-> "start",
         nodes |-> << [id |-> "start", vars |-> Bag1(K_score, IntV(0))],
                      [id |-> "middle", vars |-> Bag1(K_score, IntV(0))] >>,
         edges |-> << [from |-> "start", to |-> "middle", condition |-> C_true,
                       actions |-> Bag1(K_score, IntV(50))] >>],
        [id |-> "phase2", initial_state |-> "begin",
         nodes |-> << [id |-> "begin", vars |-> EmptyBag],
                      [id |-> "finish", vars |-> EmptyBag] >>,
         edges |-> << [from |-> "begin", to |-> "finish", condition |-> C_true,
                       actions |-> EmptyBag] >>] >>,
     phase_edges |-> <<
        [from |-> "phase1", to |-> "phase2", condition |-> C_score_ge_50] >>]

\* A document with several eligible edges at one node and at one phase, with
\* conditions that raise, a phase without initial_state and a cycle of phases.
BranchingDoc ==
    [phases |-> <<
        [id |-> "P", initial_state |-> "A",
         nodes |-> << [id |-> "A", vars |-> Bag1(K_x, IntV(1)),
                       properties |-> Bag1(K_x, IntV(3))],
                      [id |-> "B", vars |-> Bag1(K_x, IntV(0))],
                      [id |-> "C", vars |-> Bag1(K_x, IntV(0))],
                      [id |-> "D"] >>,
         edges |-> << [from |-> "A", to |-> "B", condition |-> C_x_gt_5],
                      [from |-> "A", to |-> "C", condition |-> C_x_ge_1,
                       actions |-> Bag1(K_x, IntV(7))],
                      [from |-> "A", to |-> "D", condition |-> C_not_x,
                       actions |-> Bag1(K_z, IntV(1))],
                      [from |-> "A", to |-> "B", condition |-> C_true],
                      [from |-> "B", to |-> "A", condition |-> C_false],
                      [from |-> "B", to |-> "C", condition |-> C_x_gt_5],
                      [from |-> "C", to |-> "A", condition |-> C_y_eq_1,
                       actions |-> Bag1(K_x, IntV(1))] >>],
        [id |-> "Q",
         nodes |-> << [id |-> "E"] >>],
        [id |-> "R", initial_state |-> "G",
         nodes |-> << [id |-> "G"], [id |-> "H"] >>,
         edges |-> << [from |-> "G", to |-> "H", condition |-> C_true,
                       actions |-> Bag1(K_y, IntV(1))] >>] >>,
     phase_edges |-> <<
        [from |-> "R", to |-> "P", condition |-> C_true],
        [from |-> "P", to |-> "R", condition |-> C_x_ge_7],
        [from |-> "P", to |-> "Q", condition |-> C_x_gt_6],
        [from |-> "Q", to |-> "P", condition |-> C_true],
        [from |-> "P", to |-> "Q", condition |-> C_not_x] >>]

SmallPhase(id, node) ==
    [id |-> id, initial_state |-> node,
     nodes |-> << [id |-> node, vars |-> Bag1(K_x, IntV(0))] >>,
     edges |-> << [from |-> node, to |-> node, condition |-> C_false] >>]

\* Two phases with the id "Main".
DuplicatePhaseDoc == [phases |-> << SmallPhase("Main", "a"), SmallPhase("Main", "b") >>]

\* The second phase declares node "b" twice.
DuplicateNodeDoc ==
    [phases |-> << SmallPhase("Main", "a"),
                   [id |-> "Other", nodes |-> << [id |-> "b"], [id |-> "b"] >>] >>]

\* The second phase has an edge to a node it does not declare.
UnknownEndpointDoc ==
    [phases |-> << SmallPhase("Main", "a"),
                   [id |-> "Other", nodes |-> << [id |-> "b"] >>,
                    edges |-> << [from |-> "b", to |-> "nowhere", condition |-> C_true] >>] >>]

\* Scenario S6: a phase edge to "Nowhere" when only "Main" is declared.
UnknownPhaseDoc ==
    [phases |-> << SmallPhase("Main", "a") >>,
     phase_edges |-> << [from |-> "Main", to |-> "Nowhere", condition |-> C_true] >>]

\* The second phase has no "id".
MissingFieldDoc ==
    [phases |-> << SmallPhase("Main", "a"), [nodes |-> << [id |-> "b"] >>] >>]

\* An edge of the first phase has a condition that does not lex.
BadConditionDoc ==
    [phases |-> << [id |-> "Main", initial_state |-> "a",
                    nodes |-> << [id |-> "a", vars |-> Bag1(K_x, IntV(0))] >>,
                    edges |-> << [from |-> "a", to |-> "a",
                                  condition |-> C_x_gt_minus_1] >>] >>]

\* No "phases" key at all.
NoPhasesDoc == [other |-> <<>>]

\* An empty "phases" array.
EmptyDoc == [phases |-> <<>>]

\* Scenario S1: phase P, nodes A and B, initial A, edge A->B on `true`.
S1Doc ==
    [phases |-> << [id |-> "P", initial_state |-> "A",
                    nodes |-> << [id |-> "A"], [id |-> "B"] >>,
                    edges |-> << [from |-> "A", to |-> "B", condition |-> C_true] >>] >>]

\* Scenario S2: phase P, node A with vars.count = 0, self-loop on `count < 2`
\* with action count = 1.
S2Doc ==
    [phases |-> << [id |-> "P", initial_state |-> "A",
                    nodes |-> << [id |-> "A", vars |-> Bag1(K_count, IntV(0))] >>,
                    edges |-> << [from |-> "A", to |-> "A", condition |-> C_count_lt_2,
                                  actions |-> Bag1(K_count, IntV(1))] >>] >>]

\* The first phase declares an initial_state that names none of its nodes.
GhostInitialDoc ==
    [phases |-> << [id |-> "Main", initial_state |-> "ghost",
                    nodes |-> << [id |-> "a"] >>,
                    edges |-> << [from |-> "a", to |-> "a", condition |-> C_true] >>],
                   [id |-> "Other", initial_state |-> "b",
                    nodes |-> << [id |-> "b"] >>] >>,
     phase_edges |-> << [from |-> "Other", to |-> "Main", condition |-> C_true] >>]

\* The files that can be opened, by path.
\* One edge whose action map has two entries, neither in the destination's vars.
TwoActionsDoc ==
    [phases |-> << [id |-> "P", initial_state |-> "A",
                    nodes |-> << [id |-> "A"], [id |-> "B", vars |-> Bag1(K_x, IntV(0))] >>,
                    edges |-> << [from |-> "A", to |-> "B", condition |-> C_true,
                                  actions |-> Bag2(K_count, IntV(1), K_enabled, BoolV(FALSE))] >>] >>]

\* One phase with a phase edge from the phase to itself.
SelfPhaseDoc ==
    [phases |-> << [id |-> "P", initial_state |-> "A",
                    nodes |-> << [id |-> "A"], [id |-> "B"] >>,
                    edges |-> << [from |-> "A", to |-> "B", condition |-> C_true] >>] >>,
     phase_edges |-> << [from |-> "P", to |-> "P", condition |-> C_true] >>]

Files ==
    [path \in {"sample_graph.json", "test_phase_transitions.json", "branching.json",
               "duplicate_phase.json", "duplicate_node.json", "unknown_endpoint.json",
               "unknown_phase.json", "missing_field.json", "bad_condition.json",
               "no_phases.json", "empty.json", "s1.json", "s2.json",
               "ghost_initial.json", "two_actions.json", "self_phase.json"} |->
        CASE path = "sample_graph.json" -> SampleGraph
          [] path = "test_phase_transitions.json" -> PhaseTransitionsDoc
          [] path = "branching.json" -> BranchingDoc
          [] path = "duplicate_phase.json" -> DuplicatePhaseDoc
          [] path = "duplicate_node.json" -> DuplicateNodeDoc
          [] path = "unknown_endpoint.json" -> UnknownEndpointDoc
          [] path = "unknown_phase.json" -> UnknownPhaseDoc
          [] path = "missing_field.json" -> MissingFieldDoc
          [] path = "bad_condition.json" -> BadConditionDoc
          [] path = "no_phases.json" -> NoPhasesDoc
          [] path = "s1.json" -> S1Doc
          [] path = "s2.json" -> S2Doc
          [] path = "ghost_initial.json" -> GhostInitialDoc
          [] path = "two_actions.json" -> TwoActionsDoc
          [] path = "self_phase.json" -> SelfPhaseDoc
          [] OTHER -> EmptyDoc]

\* The paths a caller passes to loadFromJson; "missing.json" cannot be opened.
Paths == DOMAIN Files \cup {"missing.json"}

(***************************************************************************)
(* multi_phase_state_graph.hpp: MultiPhaseStateGraph.  The operations are  *)
(* functions of the object mp = [phases_, phase_index_, phase_edges_,      *)
(* phase_adj_, current_phase_]; the actions below apply them to the state. *)
(***************************************************************************)
\* MultiPhaseStateGraph::clear, also the state of a fresh object.
clear == [phases_ |-> <<>>, phase_index_ |-> EmptyIndex, phase_edges_ |-> <<>>,
          phase_adj_ |-> <<>>, current_phase_ |-> 0]

\* MultiPhaseStateGraph::currentPhaseId: the id, or the message of the exception.
currentPhaseId(mp) ==
    IF mp.current_phase_ = 0 THEN [what |-> "No current phase", id |-> ""]
    ELSE [what |-> "", id |-> mp.phases_[mp.current_phase_].id]

\* MultiPhaseStateGraph::currentStateId
currentStateId(mp) ==
    IF mp.current_phase_ = 0 THEN [what |-> "No current phase", id |-> ""]
    ELSE StateGraph_currentStateId(mp.phases_[mp.current_phase_].graph)

\* MultiPhaseStateGraph::currentNode
currentNode(mp) ==
    IF mp.current_phase_ = 0 THEN [what |-> "No current phase", index |-> 0]
    ELSE StateGraph_currentNode(mp.phases_[mp.current_phase_].graph)

\* setInitialPhase applying initial_state only to a phase without a current node.
setInitialPhase_lazy(mp, phaseId) ==
    IF phaseId \notin DOMAIN mp.phase_index_ THEN [mp |-> mp, ret |-> FALSE]
    ELSE LET cp == mp.phase_index_[phaseId]
             p == mp.phases_[cp]
             g == IF p.initial_state # "" /\ ~hasCurrentState(p.graph)
                  THEN setInitialState(p.graph, p.initial_state).g
                  ELSE p.graph
         IN [mp |-> [mp EXCEPT !.current_phase_ = cp, !.phases_[cp].graph = g], ret |-> TRUE]

\* setInitialPhase refusing a phase whose initial_state names none of its nodes.
setInitialPhase_strict(mp, phaseId) ==
    IF phaseId \notin DOMAIN mp.phase_index_ THEN [mp |-> mp, ret |-> FALSE]
    ELSE LET cp == mp.phase_index_[phaseId]
             p == mp.phases_[cp]
             r == setInitialState(p.graph, p.initial_state)
         IN IF p.initial_state # "" /\ ~r.ret THEN [mp |-> mp, ret |-> FALSE]
            ELSE [mp |-> [mp EXCEPT !.current_phase_ = cp,
                                    !.phases_[cp].graph =
                                        IF p.initial_state # "" THEN r.g ELSE p.graph],
                  ret |-> TRUE]

\* setInitialPhase emptying the vars of the nodes of the phase it selects.
setInitialPhase_wipe(mp, phaseId) ==
    IF phaseId \notin DOMAIN mp.phase_index_ THEN [mp |-> mp, ret |-> FALSE]
    ELSE LET cp == mp.phase_index_[phaseId]
             p == mp.phases_[cp]
             g == IF p.initial_state # "" THEN setInitialState(p.graph, p.initial_state).g
                  ELSE p.graph
             wiped == [g EXCEPT !.nodes_ = [i \in DOMAIN @ |-> [@[i] EXCEPT !.vars = EmptyBag]]]
         IN [mp |-> [mp EXCEPT !.current_phase_ = cp, !.phases_[cp].graph = wiped],
             ret |-> TRUE]

\* MultiPhaseStateGraph::setInitialPhase
setInitialPhase(mp, phaseId) ==
    IF phaseId \notin DOMAIN mp.phase_index_ THEN [mp |-> mp, ret |-> FALSE]
    ELSE LET cp == mp.phase_index_[phaseId]
             p == mp.phases_[cp]
             g == IF p.initial_state # "" THEN setInitialState(p.graph, p.initial_state).g
                  ELSE p.graph
         IN [mp |-> [mp EXCEPT !.current_phase_ = cp, !.phases_[cp].graph = g], ret |-> TRUE]

\* What a call of step hands back and what it did: has is FALSE for
\* std::nullopt, what is the message of the exception thrown ("" when none),
\* fired / fired_pe are the node edge and phase edge taken (0 when none) and
\* evald / evald_pe the node edges and phase edges evaluated, in order.
StepResult(has, what, phase_changed, state_changed, phase_id, state_id,
           fired, evald, fired_pe, evald_pe) ==
    [has |-> has, what |-> what, phase_changed |-> phase_changed,
     state_changed |-> state_changed, phase_id |-> phase_id, state_id |-> state_id,
     fired |-> fired, evald |-> evald, fired_pe |-> fired_pe, evald_pe |-> evald_pe]

NoResult == StepResult(FALSE, "", FALSE, FALSE, "", "", 0, <<>>, 0, <<>>)

\* phaseLoop putting every phase it enters at its initial_state.
RECURSIVE phaseLoop_reset(_, _, _, _)
phaseLoop_reset(mp, cp, k, evald_pe) ==
    LET g == mp.phases_[cp].graph
        curNode == g.nodes_[g.current_index_]
        adj == mp.phase_adj_[cp]
    IN IF k > Len(adj) THEN [mp |-> mp, what |-> "", fired_pe |-> 0, evald_pe |-> evald_pe]
       ELSE LET peIdx == adj[k]
                pe == mp.phase_edges_[peIdx]
                seen == Append(evald_pe, peIdx)
                target == mp.phase_index_[pe.to]
                newPhase == mp.phases_[target]
            IN Bind(PhaseEdge_evaluate(pe, curNode), LAMBDA r :
                   CASE IsThrow(r) ->
                          [mp |-> mp, what |-> r, fired_pe |-> 0, evald_pe |-> seen]
                     [] r = "true" ->
                          IF pe.to \notin DOMAIN mp.phase_index_
                          THEN [mp |-> mp, what |-> "Phase edge to unknown phase",
                                fired_pe |-> 0, evald_pe |-> seen]
                          ELSE [mp |-> [mp EXCEPT
                                           !.current_phase_ = target,
                                           !.phases_[target].graph =
                                               IF newPhase.initial_state # ""
                                               THEN setInitialState(newPhase.graph,
                                                                    newPhase.initial_state).g
                                               ELSE newPhase.graph],
                                what |-> "", fired_pe |-> peIdx, evald_pe |-> seen]
                     [] OTHER -> phaseLoop_reset(mp, cp, k + 1, seen))

\* The phase-edge loop of MultiPhaseStateGraph::step from position k of the
\* adjacency of phase cp, the phase that was current when step began.
RECURSIVE phaseLoop(_, _, _, _)
phaseLoop(mp, cp, k, evald_pe) ==
    LET g == mp.phases_[cp].graph
        curNode == g.nodes_[g.current_index_]
        adj == mp.phase_adj_[cp]
    IN IF k > Len(adj) THEN [mp |-> mp, what |-> "", fired_pe |-> 0, evald_pe |-> evald_pe]
       ELSE LET peIdx == adj[k]
                pe == mp.phase_edges_[peIdx]
                seen == Append(evald_pe, peIdx)
                target == mp.phase_index_[pe.to]
                newPhase == mp.phases_[target]
            IN Bind(PhaseEdge_evaluate(pe, curNode), LAMBDA r :
                   CASE IsThrow(r) ->
                          [mp |-> mp, what |-> r, fired_pe |-> 0, evald_pe |-> seen]
                     [] r = "true" ->
                          IF pe.to \notin DOMAIN mp.phase_index_
                          THEN [mp |-> mp, what |-> "Phase edge to unknown phase",
                                fired_pe |-> 0, evald_pe |-> seen]
                          ELSE [mp |-> [mp EXCEPT
                                           !.current_phase_ = target,
                                           !.phases_[target].graph =
                                               IF ~hasCurrentState(newPhase.graph)
                                                  /\ newPhase.initial_state # ""
                                               THEN setInitialState(newPhase.graph,
                                                                    newPhase.initial_state).g
                                               ELSE newPhase.graph],
                                what |-> "", fired_pe |-> peIdx, evald_pe |-> seen]
                     [] OTHER -> phaseLoop(mp, cp, k + 1, seen))

\* The phase-edge loop run on the object as it was before the node-level step,
\* the node-level step put back afterwards.
phaseLoop_stale(mp, cp, g1) ==
    Bind(phaseLoop(mp, cp, 1, <<>>), LAMBDA pl0 : [pl0 EXCEPT !.mp.phases_[cp].graph = g1])

\* step evaluating the phase edges against the node current before the node-level step.
MultiPhase_step_stale(mp) ==
    IF mp.current_phase_ = 0 THEN [mp |-> mp, r |-> NoResult]
    ELSE IF ~hasCurrentState(mp.phases_[mp.current_phase_].graph)
    THEN [mp |-> mp, r |-> [NoResult EXCEPT !.what = "No current state"]]
    ELSE LET cp == mp.current_phase_
         IN Bind(StateGraph_step(mp.phases_[cp].graph), LAMBDA ns :
                IF ns.what # ""
                THEN [mp |-> [mp EXCEPT !.phases_[cp].graph = ns.g],
                      r |-> [NoResult EXCEPT !.what = ns.what, !.evald = ns.evald]]
                ELSE Bind(phaseLoop_stale(mp, cp, ns.g), LAMBDA pl :
                         CASE pl.what # "" ->
                                [mp |-> pl.mp,
                                 r |-> StepResult(FALSE, pl.what, FALSE, FALSE, "", "",
                                                  ns.fired, ns.evald, 0, pl.evald_pe)]
                           [] ~hasCurrentState(pl.mp.phases_[pl.mp.current_phase_].graph) ->
                                [mp |-> pl.mp,
                                 r |-> StepResult(FALSE, "No current state", FALSE, FALSE, "", "",
                                                  ns.fired, ns.evald, pl.fired_pe, pl.evald_pe)]
                           [] OTHER ->
                                LET np == pl.mp.phases_[pl.mp.current_phase_]
                                IN [mp |-> pl.mp,
                                    r |-> StepResult(TRUE, "", pl.fired_pe # 0, ns.has, np.id,
                                                     np.graph.nodes_[np.graph.current_index_].id,
                                                     ns.fired, ns.evald, pl.fired_pe, pl.evald_pe)]))

\* The phase-edge loop followed by a node-level step of the phase entered.
phaseLoop_twice(mp, cp) ==
    Bind(phaseLoop(mp, cp, 1, <<>>), LAMBDA pl0 :
        LET tp == pl0.mp.current_phase_
        IN IF pl0.fired_pe # 0 /\ tp # cp
           THEN [pl0 EXCEPT !.mp.phases_[tp].graph =
                                StateGraph_step(pl0.mp.phases_[tp].graph).g]
           ELSE pl0)

\* step that goes on with a node-level step of the phase it has just entered.
MultiPhase_step_twice(mp) ==
    IF mp.current_phase_ = 0 THEN [mp |-> mp, r |-> NoResult]
    ELSE IF ~hasCurrentState(mp.phases_[mp.current_phase_].graph)
    THEN [mp |-> mp, r |-> [NoResult EXCEPT !.what = "No current state"]]
    ELSE LET cp == mp.current_phase_
         IN Bind(StateGraph_step(mp.phases_[cp].graph), LAMBDA ns :
                IF ns.what # ""
                THEN [mp |-> [mp EXCEPT !.phases_[cp].graph = ns.g],
                      r |-> [NoResult EXCEPT !.what = ns.what, !.evald = ns.evald]]
                ELSE Bind(phaseLoop_twice([mp EXCEPT !.phases_[cp].graph = ns.g], cp),
                          LAMBDA pl :
                         CASE pl.what # "" ->
                                [mp |-> pl.mp,
                                 r |-> StepResult(FALSE, pl.what, FALSE, FALSE, "", "",
                                                  ns.fired, ns.evald, 0, pl.evald_pe)]
                           [] ~hasCurrentState(pl.mp.phases_[pl.mp.current_phase_].graph) ->
                                [mp |-> pl.mp,
                                 r |-> StepResult(FALSE, "No current state", FALSE, FALSE, "", "",
                                                  ns.fired, ns.evald, pl.fired_pe, pl.evald_pe)]
                           [] OTHER ->
                                LET np == pl.mp.phases_[pl.mp.current_phase_]
                                IN [mp |-> pl.mp,
                                    r |-> StepResult(TRUE, "", pl.fired_pe # 0, ns.has, np.id,
                                                     np.graph.nodes_[np.graph.current_index_].id,
                                                     ns.fired, ns.evald, pl.fired_pe, pl.evald_pe)]))

\* MultiPhaseStateGraph::step: the object afterwards and the StepResult.
MultiPhase_step(mp) ==
    IF mp.current_phase_ = 0 THEN [mp |-> mp, r |-> NoResult]
    ELSE IF ~hasCurrentState(mp.phases_[mp.current_phase_].graph)
    THEN [mp |-> mp, r |-> [NoResult EXCEPT !.what = "No current state"]]
    ELSE LET cp == mp.current_phase_
         IN Bind(StateGraph_step(mp.phases_[cp].graph), LAMBDA ns :
                IF ns.what # ""
                THEN [mp |-> [mp EXCEPT !.phases_[cp].graph = ns.g],
                      r |-> [NoResult EXCEPT !.what = ns.what, !.evald = ns.evald]]
                ELSE Bind(phaseLoop([mp EXCEPT !.phases_[cp].graph = ns.g], cp, 1, <<>>),
                          LAMBDA pl :
                         CASE pl.what # "" ->
                                [mp |-> pl.mp,
                                 r |-> StepResult(FALSE, pl.what, FALSE, FALSE, "", "",
                                                  ns.fired, ns.evald, 0, pl.evald_pe)]
                           [] ~hasCurrentState(pl.mp.phases_[pl.mp.current_phase_].graph) ->
                                [mp |-> pl.mp,
                                 r |-> StepResult(FALSE, "No current state", FALSE, FALSE, "", "",
                                                  ns.fired, ns.evald, pl.fired_pe, pl.evald_pe)]
                           [] OTHER ->
                                LET np == pl.mp.phases_[pl.mp.current_phase_]
                                IN [mp |-> pl.mp,
                                    r |-> StepResult(TRUE, "", pl.fired_pe # 0, ns.has, np.id,
                                                     np.graph.nodes_[np.graph.current_index_].id,
                                                     ns.fired, ns.evald, pl.fired_pe, pl.evald_pe)]))

\* for (auto& nj : pj["nodes"]) p.graph.addNode(Node::from_json(nj)); from element k.
RECURSIVE addNodes(_, _, _)
addNodes(g, njs, k) ==
    IF k > Len(njs) THEN [g |-> g, what |-> ""]
    ELSE Bind(Node_from_json(njs[k]), LAMBDA n :
             IF ~n.ok THEN [g |-> g, what |-> n.what]
             ELSE Bind(addNode(g, n.node), LAMBDA a :
                      IF a.what # "" THEN a ELSE addNodes(a.g, njs, k + 1)))

\* for (auto& ej : pj["edges"]) p.graph.addEdge(Edge::from_json(ej)); from element k.
RECURSIVE addEdges(_, _, _)
addEdges(g, ejs, k) ==
    IF k > Len(ejs) THEN [g |-> g, what |-> ""]
    ELSE Bind(Edge_from_json(ejs[k]), LAMBDA e :
             IF ~e.ok THEN [g |-> g, what |-> e.what]
             ELSE Bind(addEdge(g, e.edge), LAMBDA a :
                      IF a.what # "" THEN a ELSE addEdges(a.g, ejs, k + 1)))

\* loadPhase leaving the initial state of the phase to be set when the phase
\* becomes current.
loadPhase_deferred(mp, pj) ==
    IF ~contains(pj, "id") THEN [mp |-> mp, what |-> "key 'id' not found"]
    ELSE IF pj.id \in DOMAIN mp.phase_index_ THEN [mp |-> mp, what |-> "Duplicate phase id"]
    ELSE Bind(IF contains(pj, "nodes") THEN addNodes(EmptyGraph, pj.nodes, 1)
              ELSE [g |-> EmptyGraph, what |-> ""], LAMBDA ns :
         IF ns.what # "" THEN [mp |-> mp, what |-> ns.what]
         ELSE Bind(IF contains(pj, "edges") THEN addEdges(ns.g, pj.edges, 1) ELSE ns,
                   LAMBDA es :
              IF es.what # "" THEN [mp |-> mp, what |-> es.what]
              ELSE LET initial_state == IF contains(pj, "initial_state")
                                        THEN pj.initial_state ELSE ""
                   IN [mp |-> [mp EXCEPT
                                  !.phase_index_ = IndexPut(mp.phase_index_, pj.id,
                                                            Len(mp.phases_) + 1),
                                  !.phases_ =
                                      Append(mp.phases_,
                                             [id |-> pj.id,
                                              graph |-> es.g,
                                              initial_state |-> initial_state]),
                                  !.phase_adj_ = Append(mp.phase_adj_, <<>>)],
                       what |-> ""]))

\* The body of the phases loop of loadFromJson for one phase object pj: the
\* object afterwards and the message of the exception thrown ("" when none).
loadPhase(mp, pj) ==
    IF ~contains(pj, "id") THEN [mp |-> mp, what |-> "key 'id' not found"]
    ELSE IF pj.id \in DOMAIN mp.phase_index_ THEN [mp |-> mp, what |-> "Duplicate phase id"]
    ELSE Bind(IF contains(pj, "nodes") THEN addNodes(EmptyGraph, pj.nodes, 1)
              ELSE [g |-> EmptyGraph, what |-> ""], LAMBDA ns :
         IF ns.what # "" THEN [mp |-> mp, what |-> ns.what]
         ELSE Bind(IF contains(pj, "edges") THEN addEdges(ns.g, pj.edges, 1) ELSE ns,
                   LAMBDA es :
              IF es.what # "" THEN [mp |-> mp, what |-> es.what]
              ELSE LET initial_state == IF contains(pj, "initial_state")
                                        THEN pj.initial_state ELSE ""
                   IN [mp |-> [mp EXCEPT
                                  !.phase_index_ = IndexPut(mp.phase_index_, pj.id,
                                                            Len(mp.phases_) + 1),
                                  !.phases_ =
                                      Append(mp.phases_,
                                             [id |-> pj.id,
                                              graph |->
                                                  IF initial_state # ""
                                                  THEN setInitialState(es.g, initial_state).g
                                                  ELSE es.g,
                                              initial_state |-> initial_state]),
                                  !.phase_adj_ = Append(mp.phase_adj_, <<>>)],
                       what |-> ""]))

\* for (auto& pj : j["phases"]) ... from element k.
RECURSIVE loadPhases(_, _, _)
loadPhases(mp, pjs, k) ==
    IF k > Len(pjs) THEN [mp |-> mp, what |-> ""]
    ELSE Bind(loadPhase(mp, pjs[k]), LAMBDA a :
             IF a.what # "" THEN a ELSE loadPhases(a.mp, pjs, k + 1))

\* loadPhaseEdge recording the edge in the adjacency of its target phase.
loadPhaseEdge_target(mp, fe) ==
    Bind(PhaseEdge_from_json(fe), LAMBDA e :
        IF ~e.ok THEN [mp |-> mp, what |-> e.what]
        ELSE IF e.edge.from \notin DOMAIN mp.phase_index_
                \/ e.edge.to \notin DOMAIN mp.phase_index_
        THEN [mp |-> mp, what |-> "Phase edge references unknown phase"]
        ELSE LET idx == Len(mp.phase_edges_) + 1
                 ti == mp.phase_index_[e.edge.to]
             IN [mp |-> [mp EXCEPT !.phase_edges_ = Append(mp.phase_edges_, e.edge),
                                   !.phase_adj_[ti] = Append(mp.phase_adj_[ti], idx)],
                 what |-> ""])

\* The body of the phase_edges loop of loadFromJson for one object fe.
loadPhaseEdge(mp, fe) ==
    Bind(PhaseEdge_from_json(fe), LAMBDA e :
        IF ~e.ok THEN [mp |-> mp, what |-> e.what]
        ELSE IF e.edge.from \notin DOMAIN mp.phase_index_
                \/ e.edge.to \notin DOMAIN mp.phase_index_
        THEN [mp |-> mp, what |-> "Phase edge references unknown phase"]
        ELSE LET idx == Len(mp.phase_edges_) + 1
                 fi == mp.phase_index_[e.edge.from]
             IN [mp |-> [mp EXCEPT !.phase_edges_ = Append(mp.phase_edges_, e.edge),
                                   !.phase_adj_[fi] = Append(mp.phase_adj_[fi], idx)],
                 what |-> ""])

\* for (auto& fe : j["phase_edges"]) ... from element k.
RECURSIVE loadPhaseEdges(_, _, _)
loadPhaseEdges(mp, fes, k) ==
    IF k > Len(fes) THEN [mp |-> mp, what |-> ""]
    ELSE Bind(loadPhaseEdge(mp, fes[k]), LAMBDA a :
             IF a.what # "" THEN a ELSE loadPhaseEdges(a.mp, fes, k + 1))

\* The end of loadFromJson making the last declared phase current.
setFirstPhase_last(mp) ==
    IF mp.phases_ = <<>> THEN mp
    ELSE LET n == Len(mp.phases_)
             p == mp.phases_[n]
             g == IF ~hasCurrentState(p.graph) /\ p.initial_state # ""
                  THEN setInitialState(p.graph, p.initial_state).g
                  ELSE p.graph
         IN [mp EXCEPT !.current_phase_ = n, !.phases_[n].graph = g]

\* The end of loadFromJson: the first phase becomes current.
setFirstPhase(mp) ==
    IF mp.phases_ = <<>> THEN mp
    ELSE LET p == mp.phases_[1]
             g == IF ~hasCurrentState(p.graph) /\ p.initial_state # ""
                  THEN setInitialState(p.graph, p.initial_state).g
                  ELSE p.graph
         IN [mp EXCEPT !.current_phase_ = 1, !.phases_[1].graph = g]

\* loadFromJson once clear() has run and the file is open and parsed as j:
\* the object afterwards, the value returned and the message of the exception
\* thrown ("" when none).
loadDocument(j) ==
    IF ~contains(j, "phases")
    THEN [mp |-> clear, ret |-> FALSE, what |-> "Missing phases array"]
    ELSE Bind(loadPhases(clear, j.phases, 1), LAMBDA ps :
             IF ps.what # "" THEN [mp |-> ps.mp, ret |-> FALSE, what |-> ps.what]
             ELSE Bind(IF contains(j, "phase_edges")
                       THEN loadPhaseEdges(ps.mp, j.phase_edges, 1)
                       ELSE ps, LAMBDA pes :
                      IF pes.what # ""
                      THEN [mp |-> pes.mp, ret |-> FALSE, what |-> pes.what]
                      ELSE [mp |-> setFirstPhase(pes.mp), ret |-> TRUE, what |-> ""]))

\* What loading each file yields; a load starts from clear(), so the outcome
\* depends on the file alone.
Loaded == [path \in DOMAIN Files |-> loadDocument(Files[path])]

\* loadFromJson that keeps, for a phase already held at the same position
\* under the same id, the graph the object holds instead of the one it built.
loadFromJson_warm(mp, filePath) ==
    IF filePath \notin DOMAIN Files THEN [mp |-> clear, ret |-> FALSE, what |-> ""]
    ELSE [Loaded[filePath] EXCEPT !.mp.phases_ =
             [k \in DOMAIN @ |-> IF k \in DOMAIN mp.phases_ /\ mp.phases_[k].id = @[k].id
                                 THEN [@[k] EXCEPT !.graph = mp.phases_[k].graph]
                                 ELSE @[k]]]

\* MultiPhaseStateGraph::loadFromJson: clear(), then false when the file
\* cannot be opened, else the document is loaded.
loadFromJson(mp, filePath) ==
    IF filePath \notin DOMAIN Files THEN [mp |-> clear, ret |-> FALSE, what |-> ""]
    ELSE Loaded[filePath]

(***************************************************************************)
(* The state: one MultiPhaseStateGraph object and its caller.              *)
(***************************************************************************)
VARIABLES
    phases_,         \* std::vector<Phase>
    phase_index_,    \* phase id -> index into phases_
    phase_edges_,    \* std::vector<PhaseEdge>
    phase_adj_,      \* per phase, the indices of its outgoing phase edges
    current_phase_,  \* std::optional<std::size_t>, 0 when empty
    last,            \* the last call made on the object and what it handed back
    config,          \* the path last passed to loadFromJson, "" before any load
    ticks,           \* step calls since the last load, while only step was called
    stimuli,         \* external setVar calls made so far
    cond_src,        \* the text handed to compileExpression
    cond_node,       \* the DefaultNode a compiled expression is evaluated against
    cond_tree,       \* what compileExpression handed back, NotCompiled before the call
    cond_result,     \* what Expression::eval handed back, "" before the call
    graph_,          \* a StateGraph object used on its own
    api              \* the last call made on graph_ or an accessor of the multi-phase object

\* The variables of a caller of the expression compiler and evaluator.
cvars == <<cond_src, cond_node, cond_tree, cond_result>>

\* The variables of a caller of StateGraph and of the accessors.
avars == <<graph_, api>>

vars == <<phases_, phase_index_, phase_edges_, phase_adj_, current_phase_,
          last, config, ticks, stimuli, cvars, avars>>

\* A call record of that caller: the operation, its argument, the message of
\* the exception ("" when none) and the value handed back.
ApiCall(op, arg, what, val) == [op |-> op, arg |-> arg, what |-> what, val |-> val]

NoApiCall == ApiCall("new", "", "", "")

NotCompiled == [ok |-> FALSE, tree |-> NullExpr, what |-> "not compiled"]

\* The object as one record.
MP == [phases_ |-> phases_, phase_index_ |-> phase_index_, phase_edges_ |-> phase_edges_,
       phase_adj_ |-> phase_adj_, current_phase_ |-> current_phase_]

\* The object after the transition.
MPnext == [phases_ |-> phases_', phase_index_ |-> phase_index_',
           phase_edges_ |-> phase_edges_', phase_adj_ |-> phase_adj_',
           current_phase_ |-> current_phase_']

\* Number of step calls counted after a load; ticks = MaxTicks + 1 stands for
\* "more, or some other call in between".
MaxTicks == 2

\* Number of external setVar calls a run makes.
MaxStimuli == 1

\* The writes a driver injects into the current node between ticks.
Stimuli == {<<K_x, IntV(0)>>, <<K_x, IntV(9)>>, <<K_y, IntV(1)>>,
            <<K_count, IntV(5)>>, <<K_enabled, BoolV(FALSE)>>, <<K_x, StrV(S_s)>>}

\* The ids a caller passes to setInitialPhase: the known ones and one unknown.
PhaseArgs == DOMAIN phase_index_ \cup {"nonexistent"}

\* A call record: op and its argument, ret the boolean returned (load,
\* setInitialPhase), and the StepResult fields (step).
Call(op, arg, ret, r) ==
    [op |-> op, arg |-> arg, ret |-> ret, has |-> r.has, what |-> r.what,
     phase_changed |-> r.phase_changed, state_changed |-> r.state_changed,
     phase_id |-> r.phase_id, state_id |-> r.state_id,
     fired |-> r.fired, evald |-> r.evald, fired_pe |-> r.fired_pe, evald_pe |-> r.evald_pe]

\* The record of a call of loadFromJson: besides ret and the exception, the
\* path loaded before it and whether the object held anything else than what
\* the call left in it.
LoadCall(filePath, l, before, mp) ==
    [op |-> "load", arg |-> filePath, ret |-> l.ret, has |-> FALSE, what |-> l.what,
     phase_changed |-> FALSE, state_changed |-> FALSE, phase_id |-> "", state_id |-> "",
     fired |-> 0, evald |-> <<>>, fired_pe |-> 0, evald_pe |-> <<>>,
     before |-> before, dirty |-> mp # l.mp]

Install(mp) ==
    /\ phases_' = mp.phases_
    /\ phase_index_' = mp.phase_index_
    /\ phase_edges_' = mp.phase_edges_
    /\ phase_adj_' = mp.phase_adj_
    /\ current_phase_' = mp.current_phase_

Init ==
    /\ phases_ = clear.phases_
    /\ phase_index_ = clear.phase_index_
    /\ phase_edges_ = clear.phase_edges_
    /\ phase_adj_ = clear.phase_adj_
    /\ current_phase_ = clear.current_phase_
    /\ last = Call("new", "", FALSE, NoResult)
    /\ config = ""
    /\ ticks = MaxTicks + 1
    /\ stimuli = 0
    /\ cond_src = <<>>
    /\ cond_node = DefaultNode("", EmptyBag, EmptyBag, EmptyBag)
    /\ cond_tree = NotCompiled
    /\ cond_result = ""
    /\ graph_ = EmptyGraph
    /\ api = NoApiCall

\* ticks after one more call of step.
Tick(t) == IF t < MaxTicks THEN t + 1 ELSE MaxTicks + 1

\* mpg.loadFromJson(filePath)
LoadFromJson(filePath) ==
    \E l \in {loadFromJson(MP, filePath)} :
       /\ Install(l.mp)
       /\ last' = LoadCall(filePath, l, config, MP)
       /\ config' = filePath
       /\ ticks' = 0
       /\ stimuli' = 0
       /\ UNCHANGED <<cvars, avars>>

\* mpg.setInitialPhase(phaseId)
SetInitialPhase(phaseId) ==
    \E s \in {setInitialPhase(MP, phaseId)} :
       /\ Install(s.mp)
       /\ last' = Call("setInitialPhase", phaseId, s.ret, NoResult)
       /\ ticks' = MaxTicks + 1
       /\ UNCHANGED <<config, stimuli, cvars, avars>>

\* mpg.step()
Step ==
    \E s \in {MultiPhase_step(MP)} :
       /\ Install(s.mp)
       /\ last' = Call("step", "", FALSE, s.r)
       /\ ticks' = Tick(ticks)
       /\ UNCHANGED <<config, stimuli, cvars, avars>>

\* mpg.currentNode().setVar(k, v): a driver injects stimulus between ticks.
\* currentNode() throws when there is no current phase or no current node.
SetVar(k, v) ==
    /\ stimuli < MaxStimuli
    /\ stimuli' = stimuli + 1
    /\ ticks' = MaxTicks + 1
    /\ UNCHANGED <<config, phase_index_, phase_edges_, phase_adj_, current_phase_, cvars,
                   avars>>
    /\ IF current_phase_ = 0
       THEN /\ last' = Call("setVar", "", FALSE, [NoResult EXCEPT !.what = "No current phase"])
            /\ UNCHANGED phases_
       ELSE LET g == phases_[current_phase_].graph
            IN IF ~hasCurrentState(g)
               THEN /\ last' = Call("setVar", "", FALSE,
                                    [NoResult EXCEPT !.what = "No current state"])
                    /\ UNCHANGED phases_
               ELSE /\ last' = Call("setVar", "", FALSE, NoResult)
                    /\ phases_' = [phases_ EXCEPT
                                     ![current_phase_].graph.nodes_[g.current_index_] =
                                        setVar(g.nodes_[g.current_index_], k, v)]

Next ==
    \/ \E filePath \in Paths : LoadFromJson(filePath)
    \/ \E phaseId \in PhaseArgs : SetInitialPhase(phaseId)
    \/ Step
    \/ \E s \in Stimuli : SetVar(s[1], s[2])

Spec == Init /\ [][Next]_vars

(***************************************************************************)
(* A caller of the expression language on its own, as in the expression    *)
(* tests: auto e = compileExpression(src); e->eval(node);                  *)
(***************************************************************************)
\* Largest magnitude of an integer bound to a name.
MaxInt == 1

K_v == <<"v">>

K_p == <<"p">>

\* A name no node binds.
K_u == <<"u">>

\* The Values a node binds to a var or a property.
Values ==
    {BoolV(TRUE), BoolV(FALSE)} \cup {IntV(n) : n \in (-MaxInt)..MaxInt}
       \cup {DoubleV(0), DoubleV(Scale \div 2)} \cup {StrV(<<>>), StrV(S_s)}

\* A key of params only.
K_q == <<"q">>

\* A var whose name contains a dot.
K_a_b == <<"a", ".", "b">>

\* Three-entry bags.
Bag3(k1, v1, k2, v2, k3, v3) ==
    [x \in {k1, k2, k3} |-> IF x = k1 THEN v1 ELSE IF x = k2 THEN v2 ELSE v3]

\* The nodes evaluated against: var v and property p bound, u bound nowhere, q
\* bound in params only, a.b a var, and a var whose own name is properties.u.
Nodes ==
    {DefaultNode("n", Bag1(K_q, BoolV(TRUE)),
                 Bag3(K_v, a, K_a_b, IntV(1), PropPrefix \o K_u, BoolV(TRUE)),
                 Bag1(K_p, b)) : a, b \in Values}

\* A string literal of the expression language.
Quoted(str) == <<"\"">> \o str \o <<"\"">>

\* `l op r` as written in a condition.
BinSrc(l, op, r) == l \o <<" ">> \o op \o <<" ">> \o r

\* Identifiers: a bound and an absent var, a bound and an absent property.
Idents == {K_v, K_u, PropPrefix \o K_p, PropPrefix \o K_u}

Literals == {C_true, C_false, <<"0">>, <<"1">>, <<"0", ".", "5">>, Quoted(<<>>), Quoted(S_s)}

CmpOperands == Idents \cup {<<"1">>, Quoted(S_s), C_true}

CmpSources == {BinSrc(l, op, r) : l \in CmpOperands, op \in CmpOps, r \in CmpOperands}

NotSources == {OpNot \o a : a \in Idents \cup Literals}

\* A parenthesised expression.
Paren(src) == <<"(">> \o src \o <<")">>

OrderOps == {OpLt, OpLe, OpGt, OpGe}

\* Ordering comparisons with a non-leaf operand: (v == 1) op 1 and 1 op (!v).
SubExprSources ==
    {BinSrc(Paren(BinSrc(K_v, OpEq, <<"1">>)), op, <<"1">>) : op \in OrderOps}
       \cup {BinSrc(<<"1">>, op, Paren(OpNot \o K_v)) : op \in OrderOps}

\* Texts with a `-` before a numeric body: v > -1, -1 > -2, -0.
NegativeSources ==
    {BinSrc(K_v, OpGt, <<"-", "1">>), BinSrc(<<"-", "1">>, OpGt, <<"-", "2">>), <<"-", "0">>}

\* Texts that are no expression of the grammar: (true, &&, true &&.
BrokenSources ==
    {<<"(">> \o C_true, OpAnd, C_true \o <<" ">> \o OpAnd}

\* A complete expression followed by further tokens: true false,
\* v == properties.p == 1, true ).
TrailingSources ==
    {C_true \o <<" ">> \o C_false,
     BinSrc(BinSrc(K_v, OpEq, PropPrefix \o K_p), OpEq, <<"1">>),
     C_true \o <<" ", ")">>}

\* Names met in the bag they are not looked up in, and a dotted var, each
\* alone and compared with 1.
RoutingNames == {K_p, PropPrefix \o K_v, K_q, PropPrefix \o K_q, K_a_b}

RoutingSources == RoutingNames \cup {BinSrc(a, OpEq, <<"1">>) : a \in RoutingNames}

\* Left operands of && and ||.
Lefts == Idents \cup Literals

\* Right operands of && and ||: comparisons that raise on some or every node,
\* and plain identifiers.
Rights == {BinSrc(K_u, OpEq, <<"1">>), BinSrc(PropPrefix \o K_u, OpLt, <<"1">>),
           BinSrc(Quoted(S_s), OpLt, <<"1">>), BinSrc(K_v, OpLt, <<"1">>), K_u, K_v}

LogicSources == {BinSrc(l, op, x) : l \in Lefts, op \in {OpAnd, OpOr}, x \in Rights}

\* enabled && count > 0
C_enabled_and_count_gt_0 ==
    <<"e", "n", "a", "b", "l", "e", "d", " ", "&", "&", " ",
      "c", "o", "u", "n", "t", " ", ">", " ", "0">>

\* The texts a caller compiles.
\* Sources whose reading depends on how the operators bind: chains of two
\* logical operators over literals, a negated comparison, nested negations,
\* a negation beside "&&", and a negation as the right operand of a comparison.
BoolLits == {C_true, C_false}

LogicOps == {OpAnd, OpOr}

ChainSources == {BinSrc(BinSrc(a, o1, b), o2, c) : a, b, c \in BoolLits, o1, o2 \in LogicOps}

NotCmpSources == {OpNot \o BinSrc(a, OpEq, b) : a \in {K_v, C_true}, b \in {PropPrefix \o K_p, C_false}}

NotNotSources == {OpNot \o OpNot \o K_v, OpNot \o OpNot \o OpNot \o K_v}

NotAndSources == {BinSrc(OpNot \o K_v, OpAnd, K_u), BinSrc(K_v, OpAnd, OpNot \o K_u)}

NotOperandSources == {BinSrc(K_v, OpEq, OpNot \o K_u)}

BindingSources ==
    ChainSources \cup NotCmpSources \cup NotNotSources \cup NotAndSources \cup NotOperandSources

Sources ==
    Idents \cup Literals \cup NotSources \cup CmpSources \cup LogicSources
       \cup Rights \cup {C_enabled_and_count_gt_0} \cup SubExprSources
       \cup NegativeSources \cup BrokenSources \cup TrailingSources
       \cup RoutingSources \cup BindingSources

\* compileExpression on every text, computed once.
Compiled == [src \in Sources |-> compileExpression(src)]

ExprInit ==
    /\ phases_ = clear.phases_
    /\ phase_index_ = clear.phase_index_
    /\ phase_edges_ = clear.phase_edges_
    /\ phase_adj_ = clear.phase_adj_
    /\ current_phase_ = clear.current_phase_
    /\ last = Call("new", "", FALSE, NoResult)
    /\ config = ""
    /\ ticks = MaxTicks + 1
    /\ stimuli = 0
    /\ cond_src \in Sources
    /\ cond_node \in Nodes
    /\ cond_tree = NotCompiled
    /\ cond_result = ""
    /\ graph_ = EmptyGraph
    /\ api = NoApiCall

\* auto e = compileExpression(cond_src);
Compile ==
    /\ cond_tree = NotCompiled
    /\ cond_tree' = Compiled[cond_src]
    /\ UNCHANGED <<phases_, phase_index_, phase_edges_, phase_adj_, current_phase_,
                   last, config, ticks, stimuli, cond_src, cond_node, cond_result, avars>>

\* e->eval(cond_node): "true", "false" or the message of the exception.
Evaluate ==
    /\ cond_tree.ok
    /\ cond_result = ""
    /\ cond_result' = eval(cond_tree.tree, cond_node)
    /\ UNCHANGED <<phases_, phase_index_, phase_edges_, phase_adj_, current_phase_,
                   last, config, ticks, stimuli, cond_src, cond_node, cond_tree, avars>>

ExprNext == Compile \/ Evaluate

ExprSpec == ExprInit /\ [][ExprNext]_vars

(***************************************************************************)
(* A caller of StateGraph on its own (addNode, addEdge, setInitialState,   *)
(* the accessors), as in the state graph tests, and of the accessors of a  *)
(* MultiPhaseStateGraph that is fresh or has been loaded.                  *)
(***************************************************************************)
\* Number of edges the caller adds to graph_.
MaxEdges == 2

\* The ids the caller uses; no node "z" is ever added.
ApiIds == {"a", "b", "z"}

\* The nodes the caller adds: two different nodes of id "a", and one of id "b".
ApiNodes == {DefaultNode("a", EmptyBag, EmptyBag, EmptyBag),
             DefaultNode("a", EmptyBag, Bag1(K_x, IntV(1)), EmptyBag),
             DefaultNode("b", EmptyBag, EmptyBag, EmptyBag)}

\* createEdge(from, to): an edge without a condition.
ApiEdge(from, to) == [NoEdge EXCEPT !.from = from, !.to = to]

\* The documents the caller loads into the multi-phase object.
ApiPaths == {"empty.json", "missing.json", "s1.json", "ghost_initial.json"}

\* graph.addNode(n)
AddNode(n) ==
    \E r \in {addNode(graph_, n)} :
       /\ graph_' = r.g
       /\ api' = ApiCall("addNode", n, r.what, "")
       /\ UNCHANGED <<phases_, phase_index_, phase_edges_, phase_adj_, current_phase_,
                      last, config, ticks, stimuli, cvars>>

\* graph.addEdge(createEdge(from, to))
AddEdge(from, to) ==
    /\ Len(graph_.edges_) < MaxEdges
    /\ \E r \in {addEdge(graph_, ApiEdge(from, to))} :
          /\ graph_' = r.g
          /\ api' = ApiCall("addEdge", <<from, to>>, r.what, "")
    /\ UNCHANGED <<phases_, phase_index_, phase_edges_, phase_adj_, current_phase_,
                   last, config, ticks, stimuli, cvars>>

\* graph.setInitialState(id)
SetInitialState(id) ==
    \E r \in {setInitialState(graph_, id)} :
       /\ graph_' = r.g
       /\ api' = ApiCall("setInitialState", id, "", r.ret)
       /\ UNCHANGED <<phases_, phase_index_, phase_edges_, phase_adj_, current_phase_,
                      last, config, ticks, stimuli, cvars>>

\* graph.currentStateId() and graph.currentNode()
GraphAccessor ==
    /\ \/ \E r \in {StateGraph_currentStateId(graph_)} :
             api' = ApiCall("graph.currentStateId", "", r.what, r.id)
       \/ \E r \in {StateGraph_currentNode(graph_)} :
             api' = ApiCall("graph.currentNode", "", r.what, r.index)
    /\ UNCHANGED <<phases_, phase_index_, phase_edges_, phase_adj_, current_phase_,
                   last, config, ticks, stimuli, cvars, graph_>>

\* mpg.currentPhaseId(), mpg.currentStateId() and mpg.currentNode()
PhaseAccessor ==
    /\ \/ \E r \in {currentPhaseId(MP)} : api' = ApiCall("currentPhaseId", "", r.what, r.id)
       \/ \E r \in {currentStateId(MP)} : api' = ApiCall("currentStateId", "", r.what, r.id)
       \/ \E r \in {currentNode(MP)} : api' = ApiCall("currentNode", "", r.what, r.index)
    /\ UNCHANGED <<phases_, phase_index_, phase_edges_, phase_adj_, current_phase_,
                   last, config, ticks, stimuli, cvars, graph_>>

\* graph.step(): the record keeps the edge that fired and the edges evaluated
\* as the argument, and the id handed back ("" for std::nullopt) as the value.
GraphStep ==
    \E r \in {StateGraph_step(graph_)} :
       /\ graph_' = r.g
       /\ api' = ApiCall("graph.step", [fired |-> r.fired, evald |-> r.evald], r.what,
                         IF r.has THEN r.g.nodes_[r.g.current_index_].id ELSE "")
       /\ UNCHANGED <<phases_, phase_index_, phase_edges_, phase_adj_, current_phase_,
                      last, config, ticks, stimuli, cvars>>

\* nullEdge.evaluate(n) on a DefaultEdge and on a DefaultPhaseEdge whose
\* compiled is nullptr.
EvaluateNullEdge(n) ==
    /\ \/ api' = ApiCall("Edge.evaluate", n, "", Edge_evaluate(NoEdge, n))
       \/ api' = ApiCall("PhaseEdge.evaluate", n, "", PhaseEdge_evaluate(NoPhaseEdge, n))
    /\ UNCHANGED <<phases_, phase_index_, phase_edges_, phase_adj_, current_phase_,
                   last, config, ticks, stimuli, cvars, graph_>>

\* The caller works on one object at a time: on graph_ while the multi-phase
\* object has no current phase, on the multi-phase object while graph_ is
\* empty.
GraphInUse == graph_ # EmptyGraph

PhasesInUse == current_phase_ # 0

ApiNext ==
    \/ \E n \in ApiNodes : ~PhasesInUse /\ AddNode(n)
    \/ \E from \in ApiIds, to \in ApiIds : ~PhasesInUse /\ AddEdge(from, to)
    \/ \E id \in ApiIds : ~PhasesInUse /\ SetInitialState(id)
    \/ GraphAccessor
    \/ PhaseAccessor
    \/ \E filePath \in ApiPaths : ~GraphInUse /\ LoadFromJson(filePath)
    \/ ~PhasesInUse /\ GraphStep
    \/ \E n \in ApiNodes : EvaluateNullEdge(n)
    \/ \E phaseId \in PhaseArgs : ~GraphInUse /\ SetInitialPhase(phaseId)
    \/ ~GraphInUse /\ Step

ApiSpec == Init /\ [][ApiNext]_vars

(***************************************************************************)
(* Properties.  A step of the caller is a transition with last'.op =       *)
(* "step"; the unprimed variables are the state before the call.           *)
(***************************************************************************)
\* A current phase with a current node exists.
HasCurrentNode == current_phase_ # 0 /\ hasCurrentState(phases_[current_phase_].graph)

\* The current node of phase q.
NodeOf(ps, q) == ps[q].graph.nodes_[ps[q].graph.current_index_]

\* vars after the entries of actions have been written over them.
Overwritten(old, actions) ==
    [k \in DOMAIN old \cup DOMAIN actions |-> IF k \in DOMAIN actions THEN actions[k] ELSE old[k]]

\* The exceptions an evaluation raises.
EvalErrors == {"Unknown var", "Unknown property", "Non-numeric in numeric comparison"}

\* C1: in every step taken while a current node exists, the node edge that
\* fires is the earliest-declared outgoing edge of the current node whose
\* condition is true against that (source) node: the current node becomes its
\* target and only its actions are applied; when no outgoing edge's condition
\* is true, or none fires, the phase's graph is as it was.
C1_NodeFirstMatch ==
    [][(last'.op = "step" /\ HasCurrentNode) =>
        LET cp == current_phase_
            g == phases_[cp].graph
            cur == g.nodes_[g.current_index_]
            adj == g.adjacency_[g.current_index_]
            holds(k) == Edge_evaluate(g.edges_[adj[k]], cur) = "true"
            g2 == phases_'[cp].graph
        IN /\ (\A k \in DOMAIN adj : ~holds(k)) => last'.fired = 0
           /\ last'.fired = 0 => g2 = g
           /\ last'.fired # 0 =>
                \E k \in DOMAIN adj :
                    LET e == g.edges_[adj[k]]
                        to == g.node_index_[e.to]
                    IN /\ adj[k] = last'.fired
                       /\ holds(k)
                       /\ \A m \in 1..(k - 1) : ~holds(m)
                       /\ g2.current_index_ = to
                       /\ g2.nodes_ = [g.nodes_ EXCEPT
                                          ![to].vars = Overwritten(g.nodes_[to].vars, e.actions)]
    ]_vars

\* C1 witness: a step fired an edge that leaves its source node, and a
\* later-declared edge of the same source node is eligible too.
C1_Witness ==
    /\ last.op = "step" /\ last.fired # 0 /\ last.fired_pe = 0
    /\ LET g == phases_[current_phase_].graph
           e == g.edges_[last.fired]
           src == g.node_index_[e.from]
       IN /\ e.from # e.to
          /\ \E j \in DOMAIN g.adjacency_[src] :
                /\ g.adjacency_[src][j] > last.fired
                /\ g.edges_[g.adjacency_[src][j]].to # e.to
                /\ Edge_evaluate(g.edges_[g.adjacency_[src][j]], g.nodes_[src]) = "true"

\* C2: in every step the phase edge that fires is the earliest-declared phase
\* edge whose from is the phase current at the start of the step and whose
\* condition is true against that phase's current node after the node-level
\* step; the current phase becomes its target; phase edges of other phases are
\* not evaluated.
C2_PhaseFirstMatch ==
    [][(last'.op = "step" /\ HasCurrentNode) =>
        LET cp == current_phase_
            N == NodeOf(phases_', cp)
            mine(i) == phase_edges_[i].from = phases_[cp].id
            holds(i) == PhaseEdge_evaluate(phase_edges_[i], N) = "true"
        IN /\ \A i \in Range(last'.evald_pe) : mine(i)
           /\ last'.fired_pe = 0 => current_phase_' = cp
           /\ last'.fired_pe # 0 =>
                LET f == last'.fired_pe
                IN /\ f \in DOMAIN phase_edges_
                   /\ mine(f) /\ holds(f)
                   /\ \A i \in 1..(f - 1) : mine(i) => ~holds(i)
                   /\ current_phase_' = phase_index_[phase_edges_[f].to]
    ]_vars

\* C2 witness: a phase edge fired while a later-declared phase edge of the
\* same phase with another target, and a phase edge of another phase, were
\* true against the same node.
C2_Witness ==
    /\ last.op = "step" /\ last.fired_pe # 0
    /\ LET f == phase_edges_[last.fired_pe]
           N == NodeOf(phases_, phase_index_[f.from])
       IN /\ f.from # f.to
          /\ \E i \in DOMAIN phase_edges_ :
                /\ i > last.fired_pe
                /\ phase_edges_[i].from = f.from /\ phase_edges_[i].to # f.to
                /\ PhaseEdge_evaluate(phase_edges_[i], N) = "true"
          /\ \E i \in DOMAIN phase_edges_ :
                /\ i < last.fired_pe
                /\ phase_edges_[i].from # f.from
                /\ PhaseEdge_evaluate(phase_edges_[i], N) = "true"

\* The result tuple a call of step returned.
Returned(pc, sc, phase_id, state_id) ==
    /\ last.has /\ last.what = ""
    /\ last.phase_changed = pc /\ last.state_changed = sc
    /\ last.phase_id = phase_id /\ last.state_id = state_id

C4_PhaseChangeOnNextStep ==
    (config = "test_phase_transitions.json" /\ last.op = "step") =>
        /\ ticks = 1 => Returned(FALSE, TRUE, "phase1", "middle")
        /\ ticks = 2 => /\ last.has /\ last.phase_changed
                        /\ last.phase_id = "phase2" /\ last.state_id = "begin"

\* C5: every step takes at most one node edge and at most one phase edge:
\* the graph of the phase current at the start is unchanged or is the outcome
\* of one outgoing edge of its current node, the current phase is unchanged or
\* the target of one phase edge of that phase, every other phase (the newly
\* current one included) is untouched, and only edges of the starting node
\* and phase are evaluated, each once.
C5_AtMostOnePerLevel ==
    [][(last'.op = "step" /\ HasCurrentNode) =>
        LET cp == current_phase_
            g == phases_[cp].graph
            adj == g.adjacency_[g.current_index_]
            taken(k) == LET e == g.edges_[adj[k]]
                            to == g.node_index_[e.to]
                        IN [g EXCEPT !.current_index_ = to,
                                     !.nodes_[to].vars = Overwritten(g.nodes_[to].vars,
                                                                     e.actions)]
        IN /\ \A q \in DOMAIN phases_ : q # cp => phases_'[q] = phases_[q]
           /\ DOMAIN phases_' = DOMAIN phases_
           /\ \/ phases_'[cp].graph = g
              \/ \E k \in DOMAIN adj : phases_'[cp].graph = taken(k)
           /\ \/ current_phase_' = cp
              \/ \E i \in Range(phase_adj_[cp]) :
                    current_phase_' = phase_index_[phase_edges_[i].to]
           /\ Range(last'.evald) \subseteq Range(adj)
           /\ Range(last'.evald_pe) \subseteq Range(phase_adj_[cp])
           /\ Cardinality(Range(last'.evald)) = Len(last'.evald)
           /\ Cardinality(Range(last'.evald_pe)) = Len(last'.evald_pe)
    ]_vars

\* C5 witness: a step took a node edge and a phase edge into another phase
\* whose current node has an eligible outgoing edge and whose own phase edge
\* is true as well.
C5_Witness ==
    /\ last.op = "step" /\ last.fired # 0 /\ last.fired_pe # 0
    /\ phase_edges_[last.fired_pe].from # phase_edges_[last.fired_pe].to
    /\ HasCurrentNode
    /\ LET g == phases_[current_phase_].graph
           N == g.nodes_[g.current_index_]
       IN /\ \E i \in Range(g.adjacency_[g.current_index_]) :
                Edge_evaluate(g.edges_[i], N) = "true"
          /\ \E i \in Range(phase_adj_[current_phase_]) :
                PhaseEdge_evaluate(phase_edges_[i], N) = "true"

\* C6: a step writes exactly the action entries of the node edge that fired,
\* into the vars of that edge's destination node; every other node's vars in
\* every phase, and every node's id, params and properties, are unchanged.
C6_ActionScope ==
    [][(last'.op = "step" /\ current_phase_ # 0) =>
        /\ DOMAIN phases_' = DOMAIN phases_
        /\ \A q \in DOMAIN phases_ :
              LET g == phases_[q].graph
                  g2 == phases_'[q].graph
                  hit(n) == /\ q = current_phase_ /\ last'.fired # 0
                            /\ n = g.node_index_[g.edges_[last'.fired].to]
              IN /\ DOMAIN g2.nodes_ = DOMAIN g.nodes_
                 /\ \A n \in DOMAIN g.nodes_ :
                       /\ g2.nodes_[n].id = g.nodes_[n].id
                       /\ g2.nodes_[n].params = g.nodes_[n].params
                       /\ g2.nodes_[n].properties = g.nodes_[n].properties
                       /\ g2.nodes_[n].vars =
                             IF hit(n)
                             THEN Overwritten(g.nodes_[n].vars, g.edges_[last'.fired].actions)
                             ELSE g.nodes_[n].vars
    ]_vars

\* C6 witness: a step fired an edge to another node whose action overwrote a
\* var of the destination, left another var of the destination alone and left
\* the same var of the source node with its different value.
C6_Witness ==
    /\ last.op = "step" /\ last.fired # 0 /\ last.fired_pe = 0
    /\ LET g == phases_[current_phase_].graph
           e == g.edges_[last.fired]
           dest == g.nodes_[g.node_index_[e.to]]
           src == g.nodes_[g.node_index_[e.from]]
       IN /\ e.from # e.to
          /\ \E k \in DOMAIN e.actions :
                /\ k \in DOMAIN src.vars /\ src.vars[k] # e.actions[k]
                /\ dest.vars[k] = e.actions[k]
          /\ DOMAIN dest.vars \ DOMAIN e.actions # {}
          /\ dest.params # EmptyBag

\* C7: across every call other than a load, a phase that is not the current
\* one and has a current node keeps it, unless the call is setInitialPhase of
\* that phase; and the step that leaves a phase leaves it at the node its
\* node-level step reached.  So a phase re-entered through a phase edge
\* resumes at the node it had when it was left, not at its initial_state.
C7_Resumption ==
    [][(last'.op \in {"step", "setInitialPhase", "setVar"}) =>
        /\ DOMAIN phases_' = DOMAIN phases_
        /\ \A q \in DOMAIN phases_ :
              (/\ q # current_phase_
               /\ hasCurrentState(phases_[q].graph)
               /\ ~(last'.op = "setInitialPhase" /\ last'.arg = phases_[q].id))
              => phases_'[q].graph.current_index_ = phases_[q].graph.current_index_
        /\ (last'.op = "step" /\ HasCurrentNode /\ current_phase_' # current_phase_) =>
              LET g == phases_[current_phase_].graph
              IN phases_'[current_phase_].graph.current_index_ =
                    IF last'.fired # 0 THEN g.node_index_[g.edges_[last'.fired].to]
                    ELSE g.current_index_
    ]_vars

\* C7 witness: a step entered another phase through a phase edge and that
\* phase is at a node other than its declared initial_state.
C7_Witness ==
    /\ last.op = "step" /\ last.fired_pe # 0 /\ last.has
    /\ phase_edges_[last.fired_pe].from # phase_edges_[last.fired_pe].to
    /\ LET p == phases_[current_phase_]
       IN /\ p.initial_state \in DOMAIN p.graph.node_index_
          /\ last.state_id # p.initial_state
          /\ NodeOf(phases_, current_phase_).id = last.state_id

\* C8: setInitialPhase with a known id returns true, makes that phase current
\* and, when the phase's initial_state names one of its nodes, leaves the
\* phase at that node whatever its current node was.
C8_SetInitialPhase ==
    (last.op = "setInitialPhase" /\ last.arg \in DOMAIN phase_index_) =>
        /\ last.ret
        /\ current_phase_ = phase_index_[last.arg]
        /\ LET p == phases_[current_phase_]
           IN /\ p.id = last.arg
              /\ p.initial_state \in DOMAIN p.graph.node_index_ =>
                    /\ hasCurrentState(p.graph)
                    /\ NodeOf(phases_, current_phase_).id = p.initial_state

\* C8 witness: phase1 of the PhaseTransitions document had moved to middle
\* (middle's score is 50 and no edge leads back to start) and
\* setInitialPhase("phase1") put it back at start.
C8_Witness ==
    /\ config = "test_phase_transitions.json"
    /\ last.op = "setInitialPhase" /\ last.arg = "phase1" /\ last.ret
    /\ NodeOf(phases_, current_phase_).id = "start"
    /\ phases_[current_phase_].graph.nodes_[2].vars[K_score] = IntV(50)

\* C9: a step in which a condition evaluation raises leaves the current
\* phase, every phase's current node and every node's vars as they were
\* before the step.
C9_StepAtomicOnError ==
    [][(last'.op = "step" /\ last'.what \in EvalErrors) => MPnext = MP]_vars

\* C10: after loadFromJson has raised, the graph is in the cleared state: no
\* phases, no phase-id index entries, no phase edges, no current phase.
C10_FailedLoadLeavesCleared ==
    (last.op = "load" /\ last.what # "") => MP = clear

\* C11: loadFromJson reports an invalid document by returning false rather
\* than raising: a document without a phases array, with two phases of the
\* same id, or with a phase edge naming an undeclared phase makes the call
\* return false and raise nothing.
C11_InvalidDocumentReturnsFalse ==
    (last.op = "load"
     /\ last.arg \in {"no_phases.json", "duplicate_phase.json", "unknown_phase.json"})
        => (last.what = "" /\ ~last.ret)

\* C12: a load of a file that cannot be opened returns false, raises nothing
\* and leaves the graph as it was before the call.
C12_OpenFailureLeavesGraph ==
    [][(last'.op = "load" /\ last'.arg \notin DOMAIN Files)
          => (~last'.ret /\ last'.what = "" /\ MPnext = MP)]_vars

\* The first phase object of the document a successful load has just read.
FirstPhaseOf(path) == Files[path].phases[1]

\* The ids of the nodes a phase object declares.
DeclaredNodes(pj) == IF contains(pj, "nodes") THEN {pj.nodes[k].id : k \in DOMAIN pj.nodes} ELSE {}

\* C13 (as amended): right after a successful load of a document with at
\* least one phase the current phase is the first declared phase, and when
\* that phase declares an initial_state that names one of its own nodes its
\* current node is that node; right after a successful load of a document
\* with an empty phases list there is no current phase and currentPhaseId
\* raises.
C13_FirstPhaseCurrent ==
    (last.op = "load" /\ last.ret) =>
        IF Files[last.arg].phases = <<>>
        THEN current_phase_ = 0 /\ currentPhaseId(MP).what = "No current phase"
        ELSE /\ current_phase_ = 1
             /\ currentPhaseId(MP).id = FirstPhaseOf(last.arg).id
             /\ (contains(FirstPhaseOf(last.arg), "initial_state")
                 /\ FirstPhaseOf(last.arg).initial_state \in DeclaredNodes(FirstPhaseOf(last.arg)))
                    => /\ HasCurrentNode
                       /\ NodeOf(phases_, 1).id = FirstPhaseOf(last.arg).initial_state

\* C13 witness: sample_graph.json has just been loaded and Main is at Idle.
C13_Witness ==
    /\ last.op = "load" /\ last.ret /\ last.arg = "sample_graph.json"
    /\ current_phase_ = 1 /\ phases_[1].id = "Main"
    /\ HasCurrentNode /\ NodeOf(phases_, 1).id = "Idle"

\* C13 (as stated): the same, for every declared initial_state, whether or
\* not it names a node of the phase.
C13_FirstPhaseCurrent_AsStated ==
    (last.op = "load" /\ last.ret /\ Files[last.arg].phases # <<>>) =>
        /\ current_phase_ = 1
        /\ contains(FirstPhaseOf(last.arg), "initial_state")
              => /\ HasCurrentNode
                 /\ NodeOf(phases_, 1).id = FirstPhaseOf(last.arg).initial_state

(***************************************************************************)
(* Determinism.  Every operation of the object is a function of the        *)
(* object's state and the operation's arguments, except for the order in   *)
(* which StateGraph::step walks an edge's actions, an unordered_map.       *)
(***************************************************************************)
\* The orders in which a range-for may visit the keys of an unordered_map.
Orders(keys) == {s \in [1..Cardinality(keys) -> keys] : Range(s) = keys}

\* for (auto& [k, v] : e.actions) dest.setVar(k, v), visiting the keys in order.
RECURSIVE applyActionsInOrder(_, _, _)
applyActionsInOrder(dest, actions, order) ==
    IF order = <<>> THEN dest
    ELSE applyActionsInOrder(setVar(dest, order[1], actions[order[1]]), actions, Tail(order))

\* C14: determinism.  Two graphs loaded from the same configuration and given
\* the same operations agree on every result tuple and on every node's vars:
\* the only freedom a step has is the order in which the fired edge's action
\* map is walked, and whichever order is taken the nodes after the step are
\* the same, the result tuple is the one read off the object after the step,
\* and setInitialPhase and an external setVar leave every node they do not
\* name as it was.
C14_Determinism ==
    [][/\ (last'.op = "step" /\ HasCurrentNode /\ last'.fired # 0) =>
            LET cp == current_phase_
                g == phases_[cp].graph
                e == g.edges_[last'.fired]
                to == g.node_index_[e.to]
            IN /\ \A order \in Orders(DOMAIN e.actions) :
                     phases_'[cp].graph.nodes_ =
                        [g.nodes_ EXCEPT ![to] = applyActionsInOrder(g.nodes_[to], e.actions, order)]
               /\ \A q \in DOMAIN phases_ : q # cp => phases_'[q].graph.nodes_ = phases_[q].graph.nodes_
               /\ last'.has =>
                     /\ last'.phase_id = phases_'[current_phase_'].id
                     /\ last'.state_changed
                     /\ hasCurrentState(phases_'[current_phase_'].graph)
                           => last'.state_id = NodeOf(phases_', current_phase_').id
       /\ (last'.op = "step" /\ last'.fired = 0) =>
            \A q \in DOMAIN phases_ : phases_'[q].graph.nodes_ = phases_[q].graph.nodes_
       /\ last'.op = "setInitialPhase" =>
            \A q \in DOMAIN phases_ : phases_'[q].graph.nodes_ = phases_[q].graph.nodes_
    ]_vars

\* C14 witness: a step fired an edge whose action map has two entries, so that
\* two iteration orders exist, and both entries were added to the destination's
\* vars.
C14_Witness ==
    /\ last.op = "step" /\ last.has /\ last.fired # 0 /\ HasCurrentNode
    /\ LET e == phases_[current_phase_].graph.edges_[last.fired]
       IN /\ last.fired_pe = 0
          /\ Cardinality(DOMAIN e.actions) >= 2
          /\ Cardinality(Orders(DOMAIN e.actions)) >= 2
          /\ config = "two_actions.json"
          /\ NodeOf(phases_, current_phase_).vars =
                Bag1(K_x, IntV(0)) @@ Bag2(K_count, IntV(1), K_enabled, BoolV(FALSE))

\* C15: in every call of step made while the current phase has a current node,
\* in which no condition evaluation raises and after which the current phase
\* (the one entered, if a phase edge fired) has a current node, step returns a
\* result tuple: it neither raises nor yields nothing, phase_id and state_id
\* are the ids of the current phase and current node after the step,
\* state_changed is true exactly when a node edge fired and phase_changed
\* exactly when a phase edge fired.
C15_ResultReflectsPostState ==
    [][(/\ last'.op = "step"
        /\ HasCurrentNode
        /\ last'.what \notin EvalErrors
        /\ hasCurrentState(phases_'[current_phase_'].graph))
          => /\ last'.has /\ last'.what = ""
             /\ last'.phase_id = currentPhaseId(MPnext).id
             /\ last'.state_id = NodeOf(phases_', current_phase_').id
             /\ last'.state_changed <=> (last'.fired # 0)
             /\ last'.phase_changed <=> (last'.fired_pe # 0)
    ]_vars

\* C15 witness: a step returned a tuple with phase_changed true and
\* state_changed false, naming the phase entered and its current node.
C15_Witness ==
    /\ last.op = "step" /\ last.has
    /\ last.phase_changed /\ ~last.state_changed
    /\ last.fired = 0 /\ last.fired_pe # 0
    /\ HasCurrentNode
    /\ last.phase_id = phases_[current_phase_].id
    /\ last.phase_id = phase_edges_[last.fired_pe].to
    /\ last.state_id = NodeOf(phases_, current_phase_).id

\* C15 as stated: whenever a current phase exists and no condition evaluation
\* raises, step returns a result tuple reflecting the state after the step.
C15_ResultReflectsPostState_AsStated ==
    [][(/\ last'.op = "step"
        /\ current_phase_ # 0
        /\ last'.what \notin EvalErrors)
          => /\ last'.has /\ last'.what = ""
             /\ last'.phase_id = currentPhaseId(MPnext).id
             /\ hasCurrentState(phases_'[current_phase_'].graph)
             /\ last'.state_id = NodeOf(phases_', current_phase_').id
             /\ last'.state_changed <=> (last'.fired # 0)
             /\ last'.phase_changed <=> (last'.fired_pe # 0)
    ]_vars

\* C16: quiescent tick.  A step in which no node edge and no phase edge fires
\* leaves the current phase, every current node and every node's vars as they
\* were, and the tuple it returns is (false, false, same phase id, same state
\* id); when every outgoing edge condition of the current node and every phase
\* edge condition of the current phase is false, the step is such a tick and
\* returns that tuple.  In S1 the first step returns (false, true, P, B) and
\* every step taken at node B, which has no outgoing edge, is quiescent.
C16_QuiescentTick ==
    /\ [][(last'.op = "step" /\ last'.fired = 0 /\ last'.fired_pe = 0) =>
            /\ MPnext = MP
            /\ last'.has =>
                 /\ ~last'.phase_changed /\ ~last'.state_changed
                 /\ last'.phase_id = phases_[current_phase_].id
                 /\ last'.state_id = NodeOf(phases_, current_phase_).id
         ]_vars
    /\ [][(/\ last'.op = "step" /\ HasCurrentNode
           /\ LET g == phases_[current_phase_].graph
                  cur == NodeOf(phases_, current_phase_)
              IN /\ \A i \in Range(g.adjacency_[g.current_index_]) :
                        Edge_evaluate(g.edges_[i], cur) = "false"
                 /\ \A i \in Range(phase_adj_[current_phase_]) :
                        PhaseEdge_evaluate(phase_edges_[i], cur) = "false")
            => /\ MPnext = MP
               /\ last'.has /\ last'.what = ""
               /\ ~last'.phase_changed /\ ~last'.state_changed
               /\ last'.phase_id = phases_[current_phase_].id
               /\ last'.state_id = NodeOf(phases_, current_phase_).id
         ]_vars
    /\ []((config = "s1.json" /\ last.op = "step" /\ ticks = 1)
             => Returned(FALSE, TRUE, "P", "B"))
    /\ [][(config = "s1.json" /\ last'.op = "step" /\ HasCurrentNode
           /\ NodeOf(phases_, current_phase_).id = "B")
            => /\ MPnext = MP
               /\ last'.has /\ last'.what = ""
               /\ ~last'.phase_changed /\ ~last'.state_changed
               /\ last'.phase_id = "P" /\ last'.state_id = "B"
         ]_vars

\* C16 witness: the second step of S1 returned (false, false, P, B) at node B.
C16_Witness ==
    /\ config = "s1.json" /\ ticks = 2 /\ last.op = "step"
    /\ last.fired = 0 /\ last.fired_pe = 0
    /\ Returned(FALSE, FALSE, "P", "B")
    /\ NodeOf(phases_, current_phase_).id = "B"

\* vars.count of the current node.
CountOfCurrent == NodeOf(phases_, current_phase_).vars[K_count]

\* C17: a self-loop edge fires like any other edge and counts as a node
\* transition.  In S2 every step, whatever the number of steps taken before,
\* fires the edge A -> A, returns (false, true, P, A) and leaves vars.count
\* equal to 1; the condition `count < 2` is evaluated on the vars as they were
\* before the step's actions are written.
C17_SelfLoop ==
    /\ []((config = "s2.json" /\ stimuli = 0 /\ last.op = "step") =>
            /\ Returned(FALSE, TRUE, "P", "A")
            /\ CountOfCurrent = IntV(1))
    /\ [][(config = "s2.json" /\ stimuli = 0 /\ last'.op = "step") =>
            /\ current_phase_ = 1 /\ HasCurrentNode
            /\ CountOfCurrent \in {IntV(0), IntV(1)}
            /\ Edge_evaluate(phases_[1].graph.edges_[1], NodeOf(phases_, 1)) = "true"
            /\ last'.fired = 1 /\ last'.evald = <<1>>
            /\ phases_'[1].graph.current_index_ = phases_[1].graph.current_index_
         ]_vars

\* C17 witness: the second step of S2 after the load fired the self-loop with
\* vars.count already 1 and returned (false, true, P, A).
C17_Witness ==
    /\ config = "s2.json" /\ stimuli = 0 /\ ticks = 2
    /\ last.op = "step" /\ last.fired = 1
    /\ Returned(FALSE, TRUE, "P", "A")
    /\ CountOfCurrent = IntV(1)

(***************************************************************************)
(* Properties of the expression evaluator, checked under ExprSpec.         *)
(***************************************************************************)
\* The identifiers no node binds.
Absent == {K_u, PropPrefix \o K_u}

\* The exception extractLeaf raises for an absent identifier.
UnknownName(a) == IF a = K_u THEN "Unknown var" ELSE "Unknown property"

\* The literals that are false in boolean position.
FalseLiterals == {C_false, <<"0">>, Quoted(<<>>)}

\* C18: absent-name asymmetry.  An identifier absent from the node, a var or
\* a `properties.`-prefixed property, evaluates to false without error in
\* boolean position (alone, under !, as an operand of && or ||), and raises
\* the unknown-name error when it is an operand of a comparison.
C18_AbsentNameAsymmetry ==
    cond_result # "" =>
       /\ \A a \in Absent :
             /\ cond_src = a => cond_result = "false"
             /\ cond_src = OpNot \o a => cond_result = "true"
             /\ \A x \in Rights : cond_src = BinSrc(a, OpAnd, x) => cond_result = "false"
       /\ \A l \in FalseLiterals : cond_src = BinSrc(l, OpOr, K_u) => cond_result = "false"
       /\ \A l \in CmpOperands, r \in CmpOperands, op \in CmpOps :
             (cond_src = BinSrc(l, op, r) /\ (l \in Absent \/ r \in Absent))
                => cond_result = UnknownName(IF l \in Absent THEN l ELSE r)

\* C18 witness: a comparison whose right operand is an absent property was
\* evaluated against a node binding its left operand, and raised.
C18_Witness ==
    /\ cond_src = BinSrc(K_v, OpGe, PropPrefix \o K_u)
    /\ cond_node.vars[K_v] = IntV(1)
    /\ cond_result = "Unknown property"

\* C19: short-circuit.  For every left operand L and right operand X,
\* `L && X` evaluates to false without error on every node where L evaluates
\* to false, and `L || X` evaluates to true without error on every node where
\* L evaluates to true, whether or not X on its own raises there;
\* `enabled && count > 0` on a node with neither name evaluates to false.
C19_ShortCircuit ==
    cond_result # "" =>
       /\ \A l \in Lefts, x \in Rights :
             /\ (cond_src = BinSrc(l, OpAnd, x)
                 /\ eval(Compiled[l].tree, cond_node) = "false") => cond_result = "false"
             /\ (cond_src = BinSrc(l, OpOr, x)
                 /\ eval(Compiled[l].tree, cond_node) = "true") => cond_result = "true"
       /\ (cond_src = C_enabled_and_count_gt_0
           /\ ~hasVar(cond_node, K_enabled) /\ ~hasVar(cond_node, K_count))
             => cond_result = "false"

\* C19 witness: `v || u == 1` was evaluated to true against a node on which v
\* is true and `u == 1` on its own raises.
C19_Witness ==
    /\ cond_src = BinSrc(K_v, OpOr, BinSrc(K_u, OpEq, <<"1">>))
    /\ cond_node.vars[K_v] = StrV(S_s)
    /\ eval(Compiled[BinSrc(K_u, OpEq, <<"1">>)].tree, cond_node) = "Unknown var"
    /\ cond_result = "true"

\* The truthiness rule: a boolean is itself, a number is true when it is not
\* zero, a string is true when it is not empty.
Truthy(v) ==
    \/ v.tag = "bool" /\ v.b
    \/ v.tag \in {"int", "double"} /\ v.num # 0
    \/ v.tag = "string" /\ Len(v.str) > 0

\* C20: truthiness.  The expression consisting of just an identifier bound to
\* a Value v, as a var or as a property, evaluates to v itself when v is a
\* boolean, to v != 0 when v is an integer or a float, and to "v is not empty"
\* when v is a string; a literal in boolean position follows the same rule.
C20_Truthiness ==
    cond_result # "" =>
       /\ cond_src = K_v => cond_result = BoolRes(Truthy(cond_node.vars[K_v]))
       /\ cond_src = PropPrefix \o K_p
             => cond_result = BoolRes(Truthy(cond_node.properties[K_p]))
       /\ cond_src = C_true => cond_result = BoolRes(Truthy(BoolV(TRUE)))
       /\ cond_src = C_false => cond_result = BoolRes(Truthy(BoolV(FALSE)))
       /\ cond_src = <<"0">> => cond_result = BoolRes(Truthy(DoubleV(0)))
       /\ cond_src = <<"1">> => cond_result = BoolRes(Truthy(DoubleV(Scale)))
       /\ cond_src = <<"0", ".", "5">> => cond_result = BoolRes(Truthy(DoubleV(Scale \div 2)))
       /\ cond_src = Quoted(<<>>) => cond_result = BoolRes(Truthy(StrV(<<>>)))
       /\ cond_src = Quoted(S_s) => cond_result = BoolRes(Truthy(StrV(S_s)))

\* C20 witness: the identifier v, bound to the empty string, was evaluated to
\* false.
C20_Witness ==
    /\ cond_src = K_v
    /\ cond_node.vars[K_v] = StrV(<<>>)
    /\ cond_result = "false"

\* The Value a comparison operand of the bounded texts stands for on a node
\* that binds it.
OperandValue(a, node) ==
    CASE a = K_v -> node.vars[K_v]
      [] a = PropPrefix \o K_p -> node.properties[K_p]
      [] a = <<"1">> -> DoubleV(Scale)
      [] a = Quoted(S_s) -> StrV(S_s)
      [] OTHER -> BoolV(TRUE)

\* The equality rule: same tag, same value; an integer and a float, equal
\* after widening to float; any other pair of tags, unequal.
EqualByRule(a, b) ==
    IF a.tag = b.tag THEN a = b
    ELSE IF {a.tag, b.tag} = {"int", "double"}
    THEN (IF a.tag = "int" THEN a.num * Scale ELSE a.num)
            = (IF b.tag = "int" THEN b.num * Scale ELSE b.num)
    ELSE FALSE

\* C21: equality rule for == and !=.  With both operands bound, `l == r`
\* evaluates, without raising, to the equality rule applied to the operands'
\* Values (same tag: structural; integer and float: equal after widening;
\* any other pair of tags: false), `l != r` to its negation, and `true == 1`
\* is false.
C21_EqualityRule ==
    cond_result # "" =>
       /\ \A l \in CmpOperands \ Absent, r \in CmpOperands \ Absent :
             /\ cond_src = BinSrc(l, OpEq, r) =>
                   cond_result = BoolRes(EqualByRule(OperandValue(l, cond_node),
                                                     OperandValue(r, cond_node)))
             /\ cond_src = BinSrc(l, OpNe, r) =>
                   cond_result = BoolRes(~EqualByRule(OperandValue(l, cond_node),
                                                      OperandValue(r, cond_node)))
       /\ cond_src = BinSrc(C_true, OpEq, <<"1">>) => cond_result = "false"

\* C21 witness: `v == properties.p` was evaluated to true with v the integer
\* 0 and p the float 0.
C21_Witness ==
    /\ cond_src = BinSrc(K_v, OpEq, PropPrefix \o K_p)
    /\ cond_node.vars[K_v] = IntV(0)
    /\ cond_node.properties[K_p] = DoubleV(0)
    /\ cond_result = "true"

\* The number a numeric Value stands for, in 1/Scale units.
NumberOf(v) == IF v.tag = "int" THEN v.num * Scale ELSE v.num

IsNumeric(v) == v.tag \in {"int", "double"}

\* The ordering op applied to two numbers.
Ordered(op, a, b) ==
    CASE op = OpLt -> a < b
      [] op = OpLe -> a <= b
      [] op = OpGt -> a > b
      [] OTHER -> a >= b

\* C22: ordering comparisons.  With both operands bound, `l op r` for op one
\* of <, <=, >, >= evaluates to the ordering of the two numbers when both
\* operands are integers or floats, and raises the non-numeric-comparison
\* error when either is a boolean or a string, or a parenthesised
\* sub-expression (whose boolean result is the operand).
C22_OrderingNeedsNumbers ==
    cond_result # "" =>
       /\ \A l \in CmpOperands \ Absent, r \in CmpOperands \ Absent, op \in OrderOps :
             cond_src = BinSrc(l, op, r) =>
                IF IsNumeric(OperandValue(l, cond_node)) /\ IsNumeric(OperandValue(r, cond_node))
                THEN cond_result = BoolRes(Ordered(op, NumberOf(OperandValue(l, cond_node)),
                                                   NumberOf(OperandValue(r, cond_node))))
                ELSE cond_result = "Non-numeric in numeric comparison"
       /\ cond_src \in SubExprSources => cond_result = "Non-numeric in numeric comparison"

\* C22 witness: `(v == 1) < 1`, whose left operand is a sub-expression, was
\* evaluated against a node on which v is the integer 1, and raised.
C22_Witness ==
    /\ cond_src = BinSrc(Paren(BinSrc(K_v, OpEq, <<"1">>)), OpLt, <<"1">>)
    /\ cond_node.vars[K_v] = IntV(1)
    /\ cond_result = "Non-numeric in numeric comparison"

\* C23: negative number literals.  A text with a `-` immediately followed by
\* a numeric body at a primary position compiles, `v > -1` evaluates to true
\* on a node where v is 0, `-1 > -2` evaluates to true and `-0` to false.
C23_NegativeLiterals ==
    (cond_src \in NegativeSources /\ cond_tree # NotCompiled) =>
       /\ cond_tree.ok
       /\ cond_result # "" =>
             /\ (cond_src = BinSrc(K_v, OpGt, <<"-", "1">>) /\ cond_node.vars[K_v] = IntV(0))
                   => cond_result = "true"
             /\ cond_src = BinSrc(<<"-", "1">>, OpGt, <<"-", "2">>) => cond_result = "true"
             /\ cond_src = <<"-", "0">> => cond_result = "false"

\* C24: compileExpression rejects every text that is not a complete
\* expression of the grammar: an unmatched parenthesis, an unexpected token,
\* and a complete expression followed by trailing tokens all fail with a
\* parse error.
C24_RejectsIncomplete ==
    (cond_src \in BrokenSources \cup TrailingSources /\ cond_tree # NotCompiled)
       => (~cond_tree.ok /\ cond_tree.what # "")

\* C25: name routing.  An identifier beginning with `properties.` is looked
\* up only in the properties bag under the name without the prefix, any other
\* identifier, dotted or not, only in vars; params are never consulted.  So p
\* (a property only), properties.v (a var only), q and properties.q (a param
\* only) and properties.u (a var under that very name) are absent: false in
\* boolean position, an unknown-name error in a comparison; a.b is the var of
\* that name; v and properties.p depend on their own bag alone.
C25_NameRouting ==
    cond_result # "" =>
       /\ \A a \in {K_p, K_q} :
             /\ cond_src = a => cond_result = "false"
             /\ cond_src = BinSrc(a, OpEq, <<"1">>) => cond_result = "Unknown var"
       /\ \A a \in {K_v, K_q, K_u} :
             /\ cond_src = PropPrefix \o a => cond_result = "false"
             /\ cond_src = BinSrc(PropPrefix \o a, OpEq, <<"1">>)
                   => cond_result = "Unknown property"
       /\ cond_src = K_a_b => cond_result = BoolRes(Truthy(cond_node.vars[K_a_b]))
       /\ cond_src = BinSrc(K_a_b, OpEq, <<"1">>) => cond_result = "true"
       /\ cond_src = K_v => cond_result = BoolRes(Truthy(cond_node.vars[K_v]))
       /\ cond_src = PropPrefix \o K_p
             => cond_result = BoolRes(Truthy(cond_node.properties[K_p]))

\* C25 witness: the bare identifier p was evaluated to false against a node
\* whose properties bind p to true and whose vars do not bind p.
C25_Witness ==
    /\ cond_src = K_p
    /\ hasProperty(cond_node, K_p) /\ cond_node.properties[K_p] = BoolV(TRUE)
    /\ ~hasVar(cond_node, K_p)
    /\ cond_result = "false"

\* C26: the evaluator is pure.  In every step, whatever the edge and
\* phase-edge conditions evaluated in it return or raise, the node they are
\* evaluated against is not written by the evaluation: when no node edge
\* fires the current phase's graph is as it was, when one fires only the
\* destination's vars change and they are the old vars overwritten by the
\* edge's actions, no node's params or properties ever change, and the
\* current phase changes only when a phase edge fires.
C26_EvaluatorPure ==
    [][(last'.op = "step" /\ HasCurrentNode) =>
        LET cp == current_phase_
            g == phases_[cp].graph
            g2 == phases_'[cp].graph
        IN /\ last'.fired = 0 => g2 = g
           /\ last'.fired # 0 =>
                LET e == g.edges_[last'.fired]
                    to == g.node_index_[e.to]
                IN g2.nodes_ = [g.nodes_ EXCEPT
                                   ![to].vars = Overwritten(g.nodes_[to].vars, e.actions)]
           /\ \A q \in DOMAIN phases_ : \A i \in DOMAIN phases_[q].graph.nodes_ :
                 /\ phases_'[q].graph.nodes_[i].params = phases_[q].graph.nodes_[i].params
                 /\ phases_'[q].graph.nodes_[i].properties = phases_[q].graph.nodes_[i].properties
                 /\ q # cp => phases_'[q].graph.nodes_[i] = phases_[q].graph.nodes_[i]
           /\ last'.fired_pe = 0 => current_phase_' = cp
           /\ (last'.fired = 0 /\ last'.fired_pe = 0) => MPnext = MP
    ]_vars

\* C26 witness: a step evaluated three node-edge conditions, two false and the
\* third true, and then a phase-edge condition that raised.
C26_Witness ==
    /\ last.op = "step" /\ last.fired # 0 /\ last.fired_pe = 0
    /\ Len(last.evald) >= 3 /\ last.evald[Len(last.evald)] = last.fired
    /\ last.evald_pe # <<>>
    /\ last.what \in EvalErrors
    /\ HasCurrentNode

(***************************************************************************)
(* Properties of StateGraph and of the accessors, checked under ApiSpec.   *)
(***************************************************************************)
\* The transition is a call made by the caller of StateGraph and of the
\* accessors (a call that reports and changes nothing new is a stuttering step).
ApiCalled == api' # api \/ graph_' # graph_

\* C27: rejected graph mutations leave the graph unchanged.  addNode with an
\* id already present raises and the graph is as it was, otherwise it appends
\* the node with a fresh index entry and an empty adjacency list; addEdge
\* with an unknown from or to raises and the graph is as it was, otherwise it
\* appends the edge and its index to the adjacency of from; so node ids are
\* unique and the index maps every id to its node.
C27_RejectedMutations ==
    /\ [][(api'.op = "addNode" /\ ApiCalled) =>
            IF api'.arg.id \in DOMAIN graph_.node_index_
            THEN api'.what = "Duplicate node id" /\ graph_' = graph_
            ELSE /\ api'.what = ""
                 /\ graph_'.nodes_ = Append(graph_.nodes_, api'.arg)
                 /\ graph_'.adjacency_ = Append(graph_.adjacency_, <<>>)
                 /\ DOMAIN graph_'.node_index_ = DOMAIN graph_.node_index_ \cup {api'.arg.id}
                 /\ graph_'.edges_ = graph_.edges_
                 /\ graph_'.current_index_ = graph_.current_index_
         ]_vars
    /\ [][(api'.op = "addEdge" /\ ApiCalled) =>
            IF api'.arg[1] \notin DOMAIN graph_.node_index_
               \/ api'.arg[2] \notin DOMAIN graph_.node_index_
            THEN api'.what = "Edge references unknown node" /\ graph_' = graph_
            ELSE /\ api'.what = ""
                 /\ graph_'.edges_ = Append(graph_.edges_, ApiEdge(api'.arg[1], api'.arg[2]))
                 /\ graph_'.adjacency_ =
                       [graph_.adjacency_ EXCEPT ![graph_.node_index_[api'.arg[1]]] =
                           Append(@, Len(graph_.edges_) + 1)]
                 /\ graph_'.nodes_ = graph_.nodes_
                 /\ graph_'.node_index_ = graph_.node_index_
         ]_vars
    /\ [](/\ \A i \in DOMAIN graph_.nodes_, j \in DOMAIN graph_.nodes_ :
                graph_.nodes_[i].id = graph_.nodes_[j].id => i = j
          /\ DOMAIN graph_.node_index_ = {graph_.nodes_[i].id : i \in DOMAIN graph_.nodes_}
          /\ \A i \in DOMAIN graph_.nodes_ : graph_.node_index_[graph_.nodes_[i].id] = i
          /\ Len(graph_.adjacency_) = Len(graph_.nodes_))

\* C27 witness: addNode of a second, different node of id "a" raised on a
\* graph holding "b", "a" and an edge, which still holds just those.
C27_Witness ==
    /\ api.op = "addNode" /\ api.what = "Duplicate node id"
    /\ api.arg = DefaultNode("a", EmptyBag, Bag1(K_x, IntV(1)), EmptyBag)
    /\ Len(graph_.nodes_) = 2
    /\ graph_.nodes_[2] = DefaultNode("a", EmptyBag, EmptyBag, EmptyBag)
    /\ Len(graph_.edges_) = 1

\* C28: state access errors.  currentPhaseId, currentStateId and currentNode
\* of the multi-phase graph raise whenever there is no current phase, whether
\* the object is fresh, cleared by a failed load or loaded with zero phases,
\* and hand back the current phase's id, current node's id and current node
\* otherwise (raising when that phase has no current node);
\* currentStateId and currentNode of a single graph raise whenever its
\* current node is unset; none of these calls changes either object.
C28_AccessErrors ==
    /\ [][(ApiCalled /\ api'.op \in {"currentPhaseId", "currentStateId", "currentNode"}) =>
            /\ MPnext = MP /\ graph_' = graph_ /\ last' = last
            /\ IF current_phase_ = 0 THEN api'.what = "No current phase"
               ELSE IF api'.op = "currentPhaseId"
               THEN api'.what = "" /\ api'.val = phases_[current_phase_].id
               ELSE IF ~HasCurrentNode THEN api'.what = "No current state"
               ELSE /\ api'.what = ""
                    /\ api'.op = "currentStateId" => api'.val = NodeOf(phases_, current_phase_).id
                    /\ api'.op = "currentNode"
                          => api'.val = phases_[current_phase_].graph.current_index_
         ]_vars
    /\ [][(ApiCalled /\ api'.op \in {"graph.currentStateId", "graph.currentNode"}) =>
            /\ MPnext = MP /\ graph_' = graph_ /\ last' = last
            /\ IF graph_.current_index_ = 0 THEN api'.what = "No current state"
               ELSE /\ api'.what = ""
                    /\ api'.op = "graph.currentStateId"
                          => api'.val = graph_.nodes_[graph_.current_index_].id
                    /\ api'.op = "graph.currentNode" => api'.val = graph_.current_index_
         ]_vars

\* C28 witness: currentNode raised on a multi-phase graph loaded, with return
\* value true, from a document with zero phases, while the single graph holds
\* nodes but no current node.
C28_Witness ==
    /\ config = "empty.json" /\ last.op = "load" /\ last.ret
    /\ current_phase_ = 0
    /\ api.op = "currentNode" /\ api.what = "No current phase"
    /\ Len(graph_.nodes_) = 2 /\ graph_.current_index_ = 0

\* The state of a fresh object after loadFromJson(path).
FreshLoad(path) == loadFromJson(clear, path).mp

\* The vars a document declares for node i of phase k.
DeclaredVars(path, k, i) ==
    IF contains(Files[path].phases[k].nodes[i], "vars")
    THEN Files[path].phases[k].nodes[i].vars ELSE EmptyBag

\* C29: reset by reloading.  After any sequence of step, setInitialPhase and
\* external setVar calls, a successful loadFromJson leaves the object exactly
\* as a fresh object is after loading that document: the first phase current
\* (none for a document without phases), every phase's current node the one a
\* fresh load gives it, every node's vars the declared ones.
C29_ReloadResets ==
    [][(last'.op = "load" /\ last'.ret) =>
          /\ MPnext = FreshLoad(last'.arg)
          /\ current_phase_' = IF Files[last'.arg].phases = <<>> THEN 0 ELSE 1
          /\ \A k \in DOMAIN phases_' : \A i \in DOMAIN phases_'[k].graph.nodes_ :
                phases_'[k].graph.nodes_[i].vars = DeclaredVars(last'.arg, k, i)
    ]_vars

\* C29 witness: sample_graph.json was loaded again over an object that had
\* been loaded from it before and no longer was as that load had left it.
C29_Witness ==
    /\ last.op = "load" /\ last.ret
    /\ last.arg = "sample_graph.json" /\ last.before = "sample_graph.json"
    /\ last.dirty
    /\ MP = FreshLoad("sample_graph.json")
    /\ NodeOf(phases_, 1).id = "Idle"

\* The leaf the parser builds for a literal true or false, a name.
LitLeaf(a) == LeafExpr("BOOLEAN", <<>>, 0, a = C_true)

IdLeaf(a) == LeafExpr("IDENT", a, 0, FALSE)

AtomLeaf(a) == IF a \in BoolLits THEN LitLeaf(a) ELSE IdLeaf(a)

LogicKind(op) == IF op = OpAnd THEN "AND" ELSE "OR"

\* The reading of "a o1 b o2 c" when "&&" binds tighter than "||" and both
\* associate to the left: a || (b && c), and (a o1 b) o2 c in the other cases.
ChainTree(a, o1, b, o2, c) ==
    IF o1 = OpOr /\ o2 = OpAnd
    THEN BinExpr("OR", LitLeaf(a), BinExpr("AND", LitLeaf(b), LitLeaf(c)))
    ELSE BinExpr(LogicKind(o2), BinExpr(LogicKind(o1), LitLeaf(a), LitLeaf(b)), LitLeaf(c))

LogicValue(op, x, y) == IF op = OpAnd THEN x /\ y ELSE x \/ y

ChainValue(a, o1, b, o2, c) ==
    IF o1 = OpOr /\ o2 = OpAnd
    THEN (a = C_true) \/ ((b = C_true) /\ (c = C_true))
    ELSE LogicValue(o2, LogicValue(o1, a = C_true, b = C_true), c = C_true)

BoolStr(x) == IF x THEN "true" ELSE "false"

CompiledTo(src, tree) ==
    (cond_src = src /\ cond_tree # NotCompiled) => (cond_tree.ok /\ cond_tree.tree = tree)

\* C30: operator binding of the parser.  "&&" binds tighter than "||" and both
\* associate to the left, so "a o1 b o2 c" over literals compiles to
\* a || (b && c) for "||" then "&&" and to (a o1 b) o2 c otherwise, and
\* evaluates accordingly ("false || true && false" is false,
\* "true && false || true" is true); "!" takes the whole following comparison
\* ("!a == b" is !(a == b)) and nests to the right; a comparison has one
\* operator between two primaries: a second operator is not part of it, and
\* a negation is not an operand.
C30_OperatorBinding ==
    /\ \A a, b, c \in BoolLits : \A o1, o2 \in LogicOps :
          /\ CompiledTo(BinSrc(BinSrc(a, o1, b), o2, c), ChainTree(a, o1, b, o2, c))
          /\ (cond_src = BinSrc(BinSrc(a, o1, b), o2, c) /\ cond_result # "")
                => cond_result = BoolStr(ChainValue(a, o1, b, o2, c))
    /\ \A a \in {K_v, C_true} : \A b \in {PropPrefix \o K_p, C_false} :
          CompiledTo(OpNot \o BinSrc(a, OpEq, b), NotExpr(CmpExpr(OpEq, AtomLeaf(a), AtomLeaf(b))))
    /\ CompiledTo(OpNot \o OpNot \o K_v, NotExpr(NotExpr(IdLeaf(K_v))))
    /\ CompiledTo(OpNot \o OpNot \o OpNot \o K_v, NotExpr(NotExpr(NotExpr(IdLeaf(K_v)))))
    /\ CompiledTo(BinSrc(OpNot \o K_v, OpAnd, K_u), BinExpr("AND", NotExpr(IdLeaf(K_v)), IdLeaf(K_u)))
    /\ CompiledTo(BinSrc(K_v, OpAnd, OpNot \o K_u), BinExpr("AND", IdLeaf(K_v), NotExpr(IdLeaf(K_u))))
    /\ CompiledTo(BinSrc(BinSrc(K_v, OpEq, PropPrefix \o K_p), OpEq, <<"1">>),
                  CmpExpr(OpEq, IdLeaf(K_v), IdLeaf(PropPrefix \o K_p)))
    /\ (cond_src = BinSrc(K_v, OpEq, OpNot \o K_u) /\ cond_tree # NotCompiled)
          => (~cond_tree.ok /\ cond_tree.what = "Unexpected token in primary")

\* C30 witness: "true || true && false" was compiled and evaluated to true
\* (read as (true || true) && false it would be false), and "!v == properties.p"
\* is among the sources compiled.
C30_Witness ==
    /\ cond_src = BinSrc(BinSrc(C_true, OpOr, C_true), OpAnd, C_false)
    /\ cond_tree.ok
    /\ cond_result = "true"
    /\ Compiled[OpNot \o BinSrc(K_v, OpEq, PropPrefix \o K_p)].ok

\* C31: an edge without a compiled condition has a fixed default.  evaluate
\* on a DefaultEdge whose compiled is null hands back true and on a
\* DefaultPhaseEdge whose compiled is null hands back false, whatever the
\* node; so a step of a graph whose edges carry no compiled condition takes
\* the first outgoing edge of the current node, evaluating no other.
C31_UncompiledDefaults ==
    /\ [](/\ api.op = "Edge.evaluate" => (api.what = "" /\ api.val = "true")
          /\ api.op = "PhaseEdge.evaluate" => (api.what = "" /\ api.val = "false")
          /\ \A k \in DOMAIN graph_.edges_ : graph_.edges_[k].compiled = NullExpr)
    /\ [][(ApiCalled /\ api'.op = "graph.step" /\ graph_.current_index_ # 0
             /\ graph_.adjacency_[graph_.current_index_] # <<>>) =>
            \E first \in {graph_.adjacency_[graph_.current_index_][1]} :
               /\ api'.what = ""
               /\ api'.arg = [fired |-> first, evald |-> <<first>>]
               /\ api'.val = graph_.edges_[first].to
               /\ graph_'.current_index_ = graph_.node_index_[graph_.edges_[first].to]
         ]_vars

\* C31 witness: node "a" has two outgoing edges without compiled condition,
\* to "b" and then to itself, and a step from "a" took the first and
\* handed back "b".
C31_Witness ==
    /\ api.op = "graph.step" /\ api.val = "b" /\ api.arg.fired = 1
    /\ Len(graph_.edges_) = 2
    /\ graph_.edges_[1] = ApiEdge("a", "b") /\ graph_.edges_[2] = ApiEdge("a", "a")
    /\ graph_.adjacency_[graph_.node_index_["a"]] = <<1, 2>>
    /\ Edge_evaluate(graph_.edges_[2], graph_.nodes_[graph_.node_index_["a"]]) = "true"
    /\ PhaseEdge_evaluate(NoPhaseEdge, graph_.nodes_[graph_.node_index_["a"]]) = "false"

\* A call of step on the multi-phase object, seen from the caller of both objects.
StepCalled == last'.op = "step" /\ api' = api /\ graph_' = graph_

\* C32: stepping with nothing current is a no-op.  StateGraph::step on a
\* graph without current node, whatever nodes and edges it holds, and
\* MultiPhaseStateGraph::step on an object without current phase (fresh,
\* cleared by a failed load, or loaded with zero phases) hand back nothing,
\* raise nothing, evaluate no condition and leave the object as it was.
C32_StepWithoutCurrent ==
    /\ [][(ApiCalled /\ api'.op = "graph.step" /\ graph_.current_index_ = 0) =>
            /\ api'.what = "" /\ api'.val = ""
            /\ api'.arg = [fired |-> 0, evald |-> <<>>]
            /\ graph_' = graph_
            /\ MPnext = MP
         ]_vars
    /\ [][(StepCalled /\ current_phase_ = 0) =>
            /\ ~last'.has /\ last'.what = ""
            /\ last'.fired = 0 /\ last'.evald = <<>>
            /\ last'.fired_pe = 0 /\ last'.evald_pe = <<>>
            /\ MPnext = MP
         ]_vars

\* C32 witness: step handed back nothing on a multi-phase object loaded with
\* zero phases, and graph.step handed back nothing on a graph holding two
\* nodes and an edge but no current node.
C32_Witness ==
    /\ config = "empty.json" /\ current_phase_ = 0
    /\ last.op = "step" /\ ~last.has /\ last.what = ""
    /\ api.op = "graph.step" /\ api.val = "" /\ api.what = ""
    /\ graph_.current_index_ = 0
    /\ Len(graph_.nodes_) = 2 /\ Len(graph_.edges_) >= 1

\* A call of setInitialPhase on the multi-phase object, seen from the caller
\* of both objects.
SetInitialPhaseCalled == last'.op = "setInitialPhase" /\ api' = api /\ graph_' = graph_

\* C33: setInitialState with an id that is no node of the graph, and
\* setInitialPhase with an id that is no phase of the object, return false,
\* raise nothing and leave the object (current node, current phase, vars and
\* all the rest) as it was before the call.
C33_UnknownIdRejected ==
    /\ [][(ApiCalled /\ api'.op = "setInitialState"
             /\ api'.arg \notin DOMAIN graph_.node_index_) =>
            /\ api'.val = FALSE /\ api'.what = ""
            /\ graph_' = graph_
            /\ MPnext = MP
         ]_vars
    /\ [][(SetInitialPhaseCalled /\ last'.arg \notin DOMAIN phase_index_) =>
            /\ ~last'.ret /\ last'.what = ""
            /\ MPnext = MP
            /\ graph_' = graph_
         ]_vars

\* C33 witness: setInitialState("z") returned false on a graph whose current
\* node is "a" and still is, after setInitialPhase("nonexistent") had
\* returned false on the multi-phase object.
C33_Witness ==
    /\ api.op = "setInitialState" /\ api.arg = "z" /\ api.val = FALSE
    /\ graph_.current_index_ # 0
    /\ graph_.nodes_[graph_.current_index_].id = "a"
    /\ Len(graph_.nodes_) = 2
    /\ last.op = "setInitialPhase" /\ last.arg = "nonexistent" /\ ~last.ret

\* The document loaded last was loaded successfully.
LoadedOk == config \in DOMAIN Files /\ Loaded[config].ret

\* The ids of the nodes of graph g.
NodeIds(g) == {g.nodes_[i].id : i \in DOMAIN g.nodes_}

\* Every edge of g joins nodes of g, the index and the adjacency lists refer
\* to existing nodes and edges, the current node is unset or a node of g.
GraphClosed(g) ==
    /\ \A k \in DOMAIN g.edges_ : g.edges_[k].from \in NodeIds(g) /\ g.edges_[k].to \in NodeIds(g)
    /\ DOMAIN g.node_index_ = NodeIds(g)
    /\ \A id \in DOMAIN g.node_index_ : g.node_index_[id] \in DOMAIN g.nodes_
                                          /\ g.nodes_[g.node_index_[id]].id = id
    /\ Len(g.adjacency_) = Len(g.nodes_)
    /\ \A i \in DOMAIN g.adjacency_ : \A k \in DOMAIN g.adjacency_[i] :
          /\ g.adjacency_[i][k] \in DOMAIN g.edges_
          /\ g.edges_[g.adjacency_[i][k]].from = g.nodes_[i].id
    /\ g.current_index_ \in {0} \cup DOMAIN g.nodes_

\* The ids of the phases held.
PhaseIds == {phases_[q].id : q \in DOMAIN phases_}

\* C34: reference closure.  In every state reached after a successful load
\* by step, setInitialPhase and external setVar calls, every edge joins
\* nodes of its own phase, every phase edge joins declared phases, each
\* phase's current node is unset or a node of that phase, the current phase
\* is unset or a phase held, and no step has raised "Phase edge to unknown
\* phase".
C34_ReferenceClosure ==
    /\ LoadedOk =>
          /\ \A q \in DOMAIN phases_ : GraphClosed(phases_[q].graph)
          /\ \A k \in DOMAIN phase_edges_ :
                phase_edges_[k].from \in PhaseIds /\ phase_edges_[k].to \in PhaseIds
          /\ DOMAIN phase_index_ = PhaseIds
          /\ \A id \in DOMAIN phase_index_ : phase_index_[id] \in DOMAIN phases_
                                               /\ phases_[phase_index_[id]].id = id
          /\ Len(phase_adj_) = Len(phases_)
          /\ \A q \in DOMAIN phase_adj_ : \A k \in DOMAIN phase_adj_[q] :
                /\ phase_adj_[q][k] \in DOMAIN phase_edges_
                /\ phase_edges_[phase_adj_[q][k]].from = phases_[q].id
          /\ current_phase_ \in {0} \cup DOMAIN phases_
    /\ last.op = "step" => last.what # "Phase edge to unknown phase"

\* C34 witness: sample_graph.json was loaded and a step has just taken a
\* node edge and a phase edge into another phase, whose current node is one
\* of its nodes.
C34_Witness ==
    /\ config = "sample_graph.json" /\ LoadedOk
    /\ last.op = "step" /\ last.fired # 0 /\ last.fired_pe # 0
    /\ phase_edges_[last.fired_pe].to = phases_[current_phase_].id
    /\ phase_edges_[last.fired_pe].from # phase_edges_[last.fired_pe].to
    /\ phases_[current_phase_].graph.current_index_ \in DOMAIN phases_[current_phase_].graph.nodes_
    /\ phase_edges_ # <<>> /\ \A q \in DOMAIN phases_ : phases_[q].graph.edges_ # <<>>

\* C35: a step never changes the current node of a phase other than the one
\* that was current when it began; a phase entered by a phase edge keeps the
\* current node it had (set at load time, or unset), and no other phase's
\* graph is touched at all.
C35_OtherPhasesKeepCurrent ==
    [][last'.op = "step" =>
          \A q \in DOMAIN phases_ :
             q # current_phase_ =>
                /\ phases_'[q].graph.current_index_ = phases_[q].graph.current_index_
                /\ phases_'[q] = phases_[q]
    ]_vars

\* C35 witness: the first step after loading test_phase_transitions.json has
\* entered phase2 from phase1 through the phase edge, and phase2 is at
\* "begin", the node made current when the document was loaded.
C35_Witness ==
    /\ config = "test_phase_transitions.json" /\ ticks = 1
    /\ last.op = "step" /\ last.has /\ last.phase_changed /\ last.fired_pe # 0
    /\ phases_[current_phase_].id = "phase2"
    /\ NodeOf(phases_, current_phase_).id = "begin"
    /\ NodeOf(Loaded[config].mp.phases_, current_phase_).id = "begin"

\* C36: a phase edge from a phase to itself.  When it fires the step reports
\* phase_changed = true, the current phase is the one it was, the phase's
\* current node is the one the node-level step of this call reached (the
\* one it had when no node edge fired), not the declared initial_state, and
\* state_id names that node.
C36_SelfPhaseEdge ==
    [][(last'.op = "step" /\ last'.fired_pe # 0
           /\ phase_edges_[last'.fired_pe].from = phase_edges_[last'.fired_pe].to) =>
          \E g \in {phases_[current_phase_].graph} :
          \E reached \in {IF last'.fired # 0 THEN g.node_index_[g.edges_[last'.fired].to]
                          ELSE g.current_index_} :
             /\ last'.has /\ last'.what = ""
             /\ last'.phase_changed
             /\ last'.state_changed = (last'.fired # 0)
             /\ current_phase_' = current_phase_
             /\ last'.phase_id = phases_[current_phase_].id
             /\ phases_'[current_phase_].graph.current_index_ = reached
             /\ last'.state_id = g.nodes_[reached].id
    ]_vars

\* C36 witness: in self_phase.json, whose phase P declares initial_state "A",
\* the second step after loading took no node edge and the phase edge from P
\* to P: it reports a phase change, and P is still current, at "B".
C36_Witness ==
    /\ config = "self_phase.json" /\ ticks = 2
    /\ last.op = "step" /\ last.phase_changed /\ ~last.state_changed
    /\ last.fired = 0 /\ last.fired_pe = 1
    /\ last.phase_id = "P" /\ last.state_id = "B"
    /\ phases_[current_phase_].id = "P" /\ phases_[current_phase_].initial_state = "A"
    /\ NodeOf(phases_, current_phase_).id = "B"

\* C37: a step that raises "No current state", because the current phase or
\* the phase entered by a fired phase edge has no current node, leaves the
\* current phase, every phase's current node and every node's vars as they
\* were before the call.
C37_NoCurrentStateAtomic ==
    [][(last'.op = "step" /\ last'.what = "No current state") =>
          /\ current_phase_' = current_phase_
          /\ DOMAIN phases_' = DOMAIN phases_
          /\ \A q \in DOMAIN phases_ :
                /\ phases_'[q].graph.current_index_ = phases_[q].graph.current_index_
                /\ \A i \in DOMAIN phases_[q].graph.nodes_ :
                      phases_'[q].graph.nodes_[i].vars = phases_[q].graph.nodes_[i].vars
    ]_vars

\* The vars of node i of phase q, before and after the transition.
VarsOf(ps, q, i) == ps[q].graph.nodes_[i].vars

\* C38: vars persist across phase changes.  setInitialPhase writes no node's
\* vars; a step writes at most the vars of the destination of the node edge
\* it took in the phase that was current when it began, so the phase
\* transition itself writes none and the nodes of a phase entered or
\* re-entered hold what was last written into them.
C38_VarsPersist ==
    /\ [][last'.op = "setInitialPhase" =>
            \A q \in DOMAIN phases_ : \A i \in DOMAIN phases_[q].graph.nodes_ :
               VarsOf(phases_', q, i) = VarsOf(phases_, q, i)
         ]_vars
    /\ [][last'.op = "step" =>
            \A q \in DOMAIN phases_ : \A i \in DOMAIN phases_[q].graph.nodes_ :
               VarsOf(phases_', q, i) # VarsOf(phases_, q, i) =>
                  /\ q = current_phase_
                  /\ last'.fired # 0
                  /\ i = phases_[q].graph.node_index_[phases_[q].graph.edges_[last'.fired].to]
         ]_vars

\* C38 witness: after sample_graph.json was loaded and run, setInitialPhase
\* selected a phase one of whose nodes holds vars other than the declared
\* ones, written while the phase was current earlier.
C38_Witness ==
    /\ config = "sample_graph.json" /\ LoadedOk
    /\ last.op = "setInitialPhase" /\ last.ret
    /\ phases_[current_phase_].id = last.arg
    /\ \E i \in DOMAIN phases_[current_phase_].graph.nodes_ :
          VarsOf(phases_, current_phase_, i) # DeclaredVars(config, current_phase_, i)

\* Phase q is as the last load left it.
AsLoaded(q) == phases_[q] = Loaded[config].mp.phases_[q]

\* C39: the initial states are set at load time.  Immediately after a
\* successful load every phase whose initial_state names one of its nodes
\* has that node as its current node; and a step that takes a phase edge
\* into another such phase which is still as the load left it (so whenever
\* the phase is entered for the first time) reports that phase and its
\* declared initial_state.
C39_InitialStatesAtLoad ==
    /\ [][(last'.op = "load" /\ last'.ret) =>
            \A q \in DOMAIN phases_' :
               phases_'[q].initial_state \in NodeIds(phases_'[q].graph) =>
                  /\ hasCurrentState(phases_'[q].graph)
                  /\ NodeOf(phases_', q).id = phases_'[q].initial_state
         ]_vars
    /\ [][(last'.op = "step" /\ LoadedOk /\ last'.fired_pe # 0) =>
            \E q \in {phase_index_[phase_edges_[last'.fired_pe].to]} :
               (q # current_phase_ /\ AsLoaded(q)
                  /\ phases_[q].initial_state \in NodeIds(phases_[q].graph)) =>
                  /\ last'.has /\ last'.phase_changed
                  /\ last'.phase_id = phases_[q].id
                  /\ last'.state_id = phases_[q].initial_state
         ]_vars

\* C39 witness: the second of the two steps made after loading
\* sample_graph.json took a phase edge from Main, current since the load,
\* into Recovery, and reports Recovery's declared initial_state.
C39_Witness ==
    /\ LoadedOk /\ config = "sample_graph.json" /\ ticks = 2
    /\ last.op = "step" /\ last.has /\ last.fired_pe # 0
    /\ phase_edges_[last.fired_pe].from = "Main" /\ phases_[1].id = "Main"
    /\ current_phase_ # 1
    /\ last.phase_id = phases_[current_phase_].id
    /\ phases_[current_phase_].initial_state # ""
    /\ last.state_id = phases_[current_phase_].initial_state
    /\ AsLoaded(current_phase_)

\* Document j without the initial_state entries of its phases.
WithoutInitialStates(j) ==
    IF ~contains(j, "phases") THEN j
    ELSE [j EXCEPT !.phases =
             [k \in DOMAIN j.phases |->
                 [f \in DOMAIN j.phases[k] \ {"initial_state"} |-> j.phases[k][f]]]]

\* What loading each file yields once its initial_state entries are removed.
LoadedWithoutInitialStates ==
    [path \in DOMAIN Files |-> loadDocument(WithoutInitialStates(Files[path]))]

\* Phase p declares an initial_state that names none of its nodes.
GhostInitial(p) == p.initial_state # "" /\ p.initial_state \notin NodeIds(p.graph)

\* C40: the loader never rejects a document because of an initial_state.
\* Every load returns, or raises, what it does for the same document without
\* its initial_state entries; after a successful load a phase whose
\* initial_state names none of its nodes has no current node; and
\* setInitialPhase on such a phase returns true and makes it current while
\* its current node stays unset.
C40_GhostInitialAccepted ==
    /\ [][(last'.op = "load" /\ last'.arg \in DOMAIN Files) =>
            /\ last'.ret = LoadedWithoutInitialStates[last'.arg].ret
            /\ last'.what = LoadedWithoutInitialStates[last'.arg].what
            /\ last'.ret => \A q \in DOMAIN phases_' :
                              GhostInitial(phases_'[q]) => ~hasCurrentState(phases_'[q].graph)
         ]_vars
    /\ [][(last'.op = "setInitialPhase" /\ LoadedOk /\ last'.arg \in DOMAIN phase_index_) =>
            \E q \in {phase_index_[last'.arg]} :
               (GhostInitial(phases_[q]) /\ ~hasCurrentState(phases_[q].graph)) =>
                  /\ last'.ret /\ last'.what = ""
                  /\ current_phase_' = q
                  /\ ~hasCurrentState(phases_'[q].graph)
                  /\ phases_' = phases_
         ]_vars

\* C40 witness: ghost_initial.json, whose phase Main declares initial_state
\* "ghost" and holds only node "a", was loaded with return value true, and
\* setInitialPhase("Main") has returned true: Main is current and has no
\* current node.
C40_Witness ==
    /\ config = "ghost_initial.json" /\ LoadedOk
    /\ last.op = "setInitialPhase" /\ last.arg = "Main" /\ last.ret
    /\ phases_[current_phase_].id = "Main"
    /\ phases_[current_phase_].initial_state = "ghost"
    /\ NodeIds(phases_[current_phase_].graph) = {"a"}
    /\ ~hasCurrentState(phases_[current_phase_].graph)

====
